---- MODULE Spec2Model ----
(***************************************************************************)
(* TLSF allocator (dy_tlsf): size-class math, block/area headers, the      *)
(* free-list index, allocate/free with split and coalesce, and chunk       *)
(* growth.  Memory is modelled as 16-byte cells of two machine words, the  *)
(* layout shared by BlockHeader, FreeNode and AreaInfo; chunks are         *)
(* zero-initialised, so an unwritten cell reads as <<0, 0>>.  A null       *)
(* pointer / None is the word 0.  32-bit bitmaps are the sets of their set *)
(* bit positions.                                                          *)
(***************************************************************************)
EXTENDS Integers, Naturals, Sequences, FiniteSets, TLC

\* ------------------------------------------------------------------ bounds
\* Largest number of simultaneously live allocations the client holds.
MaxLive == 3
\* Largest number of alloc calls the client makes in one run.
MaxAllocCalls == 5
\* Largest number of auxiliary chunks the explored runs let the pool grow to.
MaxAux == 4
\* Threads calling the allocator, and alloc calls they make between them.
NumThreads == 2
MaxThreadCalls == 3
\* Largest number of alloc calls followed step by step in one run.
MaxLoopCalls == 4

\* Request sizes the client draws from (bytes).
ReqSizes == {24, 200, 1500000}

\* --------------------------------------------------------------- consts.rs
MINIMUM_BLOCK_SIZE == 16
BLOCK_ALIGNOF == 8 * 2
SMALL_BLOCK_SIZE == 128
FIRST_INDEX_MAX == 36
FIRST_INDEX_OFFSET == 6
SECOND_INDEX_LOG2_MAX == 5
SECOND_INDEX_MAX == 2 ^ SECOND_INDEX_LOG2_MAX
FIRST_INDEX_REAL == FIRST_INDEX_MAX - FIRST_INDEX_OFFSET
TOTAL_COUNT == FIRST_INDEX_REAL * SECOND_INDEX_MAX

INDEX_TABLE == <<
    0, 0, 1, 1, 2, 2, 2, 2, 3, 3, 3, 3, 3, 3, 3, 3, 4, 4, 4, 4, 4, 4, 4, 4, 4, 4, 4, 4, 4, 4, 4, 4,
    5, 5, 5, 5, 5, 5, 5, 5, 5, 5, 5, 5, 5, 5, 5, 5, 5, 5, 5, 5, 5, 5, 5, 5, 5, 5, 5, 5, 5, 5, 5, 5,
    6, 6, 6, 6, 6, 6, 6, 6, 6, 6, 6, 6, 6, 6, 6, 6, 6, 6, 6, 6, 6, 6, 6, 6, 6, 6, 6, 6, 6, 6, 6, 6,
    6, 6, 6, 6, 6, 6, 6, 6, 6, 6, 6, 6, 6, 6, 6, 6, 6, 6, 6, 6, 6, 6, 6, 6, 6, 6, 6, 6, 6, 6, 6, 6,
    7, 7, 7, 7, 7, 7, 7, 7, 7, 7, 7, 7, 7, 7, 7, 7, 7, 7, 7, 7, 7, 7, 7, 7, 7, 7, 7, 7, 7, 7, 7, 7,
    7, 7, 7, 7, 7, 7, 7, 7, 7, 7, 7, 7, 7, 7, 7, 7, 7, 7, 7, 7, 7, 7, 7, 7, 7, 7, 7, 7, 7, 7, 7, 7,
    7, 7, 7, 7, 7, 7, 7, 7, 7, 7, 7, 7, 7, 7, 7, 7, 7, 7, 7, 7, 7, 7, 7, 7, 7, 7, 7, 7, 7, 7, 7, 7,
    7, 7, 7, 7, 7, 7, 7, 7, 7, 7, 7, 7, 7, 7, 7, 7, 7, 7, 7, 7, 7, 7, 7, 7, 7, 7, 7, 7, 7, 7, 7, 7 >>

\* ------------------------------------------------------------ machine words
\* a & !m on non-negative integers, bit by bit.
RECURSIVE AndNot(_, _)
AndNot(a, m) ==
    IF a = 0 THEN 0
    ELSE (a % 2) * (1 - (m % 2)) + 2 * AndNot(a \div 2, m \div 2)

\* The set of set bit positions of a non-negative integer.
RECURSIVE BitsFrom(_, _)
BitsFrom(n, i) ==
    IF n = 0 THEN {}
    ELSE (IF n % 2 = 1 THEN {i} ELSE {}) \cup BitsFrom(n \div 2, i + 1)

Bits(n) == BitsFrom(n, 0)

\* The value of a set of bit positions that all lie below 8.
ByteValue(S) ==
    (IF 0 \in S THEN 1 ELSE 0) + (IF 1 \in S THEN 2 ELSE 0)
  + (IF 2 \in S THEN 4 ELSE 0) + (IF 3 \in S THEN 8 ELSE 0)
  + (IF 4 \in S THEN 16 ELSE 0) + (IF 5 \in S THEN 32 ELSE 0)
  + (IF 6 \in S THEN 64 ELSE 0) + (IF 7 \in S THEN 128 ELSE 0)

\* value >>= 8 on a set of bit positions.
ShiftRight8(S) == {b - 8 : b \in {x \in S : x >= 8}}

\* The while loop of calculate_msb / calculate_lsb: fold whole bytes away.
RECURSIVE FoldOffset(_, _)
FoldOffset(S, offset) ==
    IF \E b \in S : b >= 8 THEN FoldOffset(ShiftRight8(S), offset + 8)
    ELSE offset

\* (!0u32).overflowing_shl(k).0 : the shift amount wraps at the word width.
ShlAllOnes(k) == {b \in 0..31 : b >= (k % 32)}

\* --------------------------------------------------------------- function.rs
None == -1

\* calculate_msb on a word given by its set bits.
MsbOfBits(S) ==
    IF S = {} THEN None
    ELSE LET offset == FoldOffset(S, 0)
         IN  INDEX_TABLE[ByteValue({b - offset : b \in {x \in S : x >= offset}}) + 1] + offset

calculate_msb(value) == MsbOfBits(Bits(value))

\* calculate_lsb on a word given by its set bits: value & (!value + 1) keeps
\* the lowest set bit only (and is 0 for 0), then the table is consulted.
LsbOfBits(S) ==
    LET value  == IF S = {} THEN {} ELSE {CHOOSE b \in S : \A c \in S : b <= c}
        offset == FoldOffset(value, 0)
    IN  INDEX_TABLE[ByteValue({b - offset : b \in {x \in value : x >= offset}}) + 1] + offset

calculate_lsb(value) == LsbOfBits(Bits(value))

round_up_block(value) == AndNot(value + (BLOCK_ALIGNOF - 1), BLOCK_ALIGNOF - 1)

round_down_block(value) == AndNot(value, BLOCK_ALIGNOF - 1)

is_aligned(value) == AndNot(value, BLOCK_ALIGNOF - 1) = value

Max(a, b) == IF a >= b THEN a ELSE b

calculate_mapping_indices(block_size) ==
    LET Large(first) ==
            <<first - FIRST_INDEX_OFFSET,
              (block_size \div (2 ^ (first - SECOND_INDEX_LOG2_MAX))) - SECOND_INDEX_MAX>>
    IN  IF block_size < SMALL_BLOCK_SIZE
        THEN <<0, block_size \div (SMALL_BLOCK_SIZE \div SECOND_INDEX_MAX)>>
        ELSE Large(calculate_msb(block_size))

\* A calculate_allocation_size that does not round up to BLOCK_ALIGNOF.
calculate_allocation_size_NoRounding(size) == Max(size, MINIMUM_BLOCK_SIZE)

calculate_allocation_size(size) == round_up_block(Max(size, MINIMUM_BLOCK_SIZE))

\* A searching size that is not rounded up to the bound of the next class.
calculate_allocation_searching_size_NoRoundUp(size) == calculate_allocation_size(size)

calculate_allocation_searching_size(size) ==
    LET RoundTo(s, t) == AndNot(s + t, t)
        Search(s) ==
            IF s < SMALL_BLOCK_SIZE THEN s
            ELSE RoundTo(s, (2 ^ (calculate_msb(s) - SECOND_INDEX_LOG2_MAX)) - 1)
    IN  Search(calculate_allocation_size(size))

calculate_index(mapping_indices) ==
    mapping_indices[1] * SECOND_INDEX_MAX + mapping_indices[2]

megabytes_of(size) == size * 1024 * 1024

\* A next_chunk_size whose additional chunks are just the allocation size,
\* with no room for the chunk's own headers.
next_chunk_size_NoHeadroom(total, last_chunk_size, size) ==
    IF total # 0 THEN size
    ELSE IF size <= megabytes_of(2) \div 8 THEN megabytes_of(2)
    ELSE megabytes_of(8)

\* Lines 184-187 of next_chunk_size: the power of two the size is aligned to.
next_chunk_aligned_size(size) ==
    IF size > 0 THEN 2 ^ (calculate_msb(size) + 1) ELSE 1024

next_chunk_size(total, last_chunk_size, size) ==
    LET INIT_CHUNK_SIZE == megabytes_of(2)
        INIT_EXPANDED_ALIGNMENT == megabytes_of(8)
        Chunk(aligned_size) ==
            IF total = 0
            THEN IF aligned_size <= (INIT_CHUNK_SIZE \div 4)
                 THEN INIT_CHUNK_SIZE
                 ELSE AndNot(aligned_size * 4 + (INIT_EXPANDED_ALIGNMENT - 1),
                             INIT_EXPANDED_ALIGNMENT - 1)
            ELSE LET expected == last_chunk_size * 2
                 IN  IF aligned_size * 4 <= expected
                     THEN expected
                     ELSE AndNot(aligned_size * 4 + (last_chunk_size - 1),
                                 last_chunk_size - 1)
    IN  Chunk(next_chunk_aligned_size(size))

\* ------------------------------------------------------------------ memory
\* Memory is a map from 16-aligned addresses to cells of two words; only the
\* non-zero cells are kept, every other address reads as zeroed memory.
ZeroCell == <<0, 0>>

rd(m, a) == IF a \in DOMAIN m THEN m[a] ELSE ZeroCell

wr(m, a, v) ==
    IF v = ZeroCell
    THEN [x \in (DOMAIN m) \ {a} |-> m[x]]
    ELSE [x \in (DOMAIN m) \cup {a} |-> IF x = a THEN v ELSE m[x]]

\* ------------------------------------------------- structs.rs : BlockHeader
\* A BlockHeader cell is <<previous_header, stored_size>>.
FREED_MASK == 1
PREV_FREED_MASK == 2

\* size_of::<BlockHeader>(), size_of::<FreeNode>(), size_of::<AreaInfo>():
\* two machine words each.
SizeOfBlockHeader == 16
SizeOfFreeNode == 16
SizeOfAreaInfo == 16

calculate_stored_size(buffer_size, is_freed, is_prev_freed) ==
    round_up_block(buffer_size)
      + (IF is_freed THEN FREED_MASK ELSE 0)
      + (IF is_prev_freed THEN PREV_FREED_MASK ELSE 0)

BlockHeader_get_aligned_size == round_up_block(SizeOfBlockHeader)

BlockHeader_new(buffer_size, is_freed, is_prev_freed, previous_header) ==
    <<previous_header, calculate_stored_size(buffer_size, is_freed, is_prev_freed)>>

\* Mutant: the start block is written as a FREE block.
new_start_block_Freed ==
    BlockHeader_new(calculate_allocation_size(SizeOfAreaInfo), TRUE, FALSE, 0)

new_start_block ==
    BlockHeader_new(calculate_allocation_size(SizeOfAreaInfo), FALSE, FALSE, 0)

previous_block_ptr(m, b) == rd(m, b)[1]

stored_size(m, b) == rd(m, b)[2]

buffer_size(m, b) == round_down_block(stored_size(m, b))

buffer_size_with_header(m, b) == BlockHeader_get_aligned_size + buffer_size(m, b)

next_block_ptr(m, b) == b + BlockHeader_get_aligned_size + buffer_size(m, b)

buffer_pointer_as(b) == b + BlockHeader_get_aligned_size

is_freed(m, b) == (stored_size(m, b) \div FREED_MASK) % 2 = 1

is_prev_freed(m, b) == (stored_size(m, b) \div PREV_FREED_MASK) % 2 = 1

set_previous_header(m, b, prev_block) == wr(m, b, <<prev_block, stored_size(m, b)>>)

\* Mutant: set_freed forgets the PREV_FREE flag.
set_freed_DropsPrevFreed(m, b, is_free) ==
    wr(m, b, <<previous_block_ptr(m, b),
               calculate_stored_size(buffer_size(m, b), is_free, FALSE)>>)

set_freed(m, b, is_free) ==
    wr(m, b, <<previous_block_ptr(m, b),
               calculate_stored_size(buffer_size(m, b), is_free, is_prev_freed(m, b))>>)

set_previous_freed(m, b, is_prev_free) ==
    wr(m, b, <<previous_block_ptr(m, b),
               calculate_stored_size(buffer_size(m, b), is_freed(m, b), is_prev_free)>>)

\* The caller checks the assert!(is_aligned(size)) of set_buffer_size.
set_buffer_size(m, b, size) ==
    wr(m, b, <<previous_block_ptr(m, b),
               calculate_stored_size(size, is_freed(m, b), is_prev_freed(m, b))>>)

\* A FreeNode cell is <<prev, next>>, an AreaInfo cell is
\* <<end_block_header, next_area_header>>; both live in the block's buffer.
FreeNode_new == <<0, 0>>
AreaInfo_new == <<0, 0>>

AreaInfo_get_aligned_size == round_up_block(SizeOfAreaInfo)

free_prev(m, b) == rd(m, buffer_pointer_as(b))[1]
free_next(m, b) == rd(m, buffer_pointer_as(b))[2]
set_free_prev(m, b, p) == wr(m, buffer_pointer_as(b), <<p, free_next(m, b)>>)
set_free_next(m, b, n) == wr(m, buffer_pointer_as(b), <<free_prev(m, b), n>>)

\* ----------------------------------------------- structs.rs : TLSFRawHeader
\* size_of::<TLSFRawHeader>(): u32 + [u32; 30] + pointer + 960 pointers +
\* 2 usize, padded to the word size.
SizeOfTLSFRawHeader == 7832

TLSFRawHeader_get_aligned_size == round_up_block(SizeOfTLSFRawHeader)

\* FreeNodeHeaderMap: TOTAL_COUNT head pointers, all None at first.  Only the
\* non-null entries are kept; get_item reads every other index below
\* TOTAL_COUNT as None.
FreeNodeHeaderMap_new == [i \in {} |-> 0]

get_item(map, index) == IF index \in DOMAIN map THEN map[index] ELSE 0

set_item(map, index, block) ==
    [i \in (DOMAIN map) \cup {index} |-> IF i = index THEN block ELSE map[i]]

reset_item(map, index) == [i \in (DOMAIN map) \ {index} |-> map[i]]

\* The pool state the operations below transform: the memory cells, the
\* fields of the TLSFRawHeader, and whether a panic (failed assert, unwrap
\* of None, index out of range) has aborted the process.
TLSFRawHeader_new(m) ==
    [mem |-> m,
     fl_bitmap |-> {},
     sl_bitmap |-> [i \in 0..(FIRST_INDEX_REAL - 1) |-> {}],
     areainfo_ptr |-> 0,
     freed_block_map |-> FreeNodeHeaderMap_new,
     maximum_memory_size |-> 0,
     used_memory_size |-> 0,
     panic |-> FALSE]

Panic(h) == [h EXCEPT !.panic = TRUE]

\* One bit of a bitmap toggled (^=) or set (|=).
XorBit(S, b) == IF b \in S THEN S \ {b} ELSE S \cup {b}

\* Mutant: the first-level bit stays set when the row becomes empty.
ClearClassBits_KeepsFl(h, mapping_indices) ==
    LET first  == mapping_indices[1]
        second == mapping_indices[2]
    IN  [h EXCEPT !.sl_bitmap[first] = XorBit(@, second % 32)]

ClearClassBits(h, mapping_indices) ==
    LET first  == mapping_indices[1]
        second == mapping_indices[2]
        sl     == XorBit(h.sl_bitmap[first], second % 32)
    IN  [h EXCEPT !.sl_bitmap[first] = sl,
                  !.fl_bitmap = IF sl = {} THEN XorBit(@, first % 32) ELSE @]

\* Mutant: a block inserted into a non-empty class is linked behind the head.
insert_block_BehindHead(h, block_ptr, mapping_indices) ==
    LET index == calculate_index(mapping_indices)
        head  == get_item(h.freed_block_map, index)
        second_block == free_next(h.mem, head)
        m1    == wr(h.mem, buffer_pointer_as(block_ptr), <<head, second_block>>)
        m2    == set_free_next(m1, head, block_ptr)
        m3    == IF second_block = 0 THEN m2 ELSE set_free_prev(m2, second_block, block_ptr)
        first == mapping_indices[1]
        second == mapping_indices[2]
    IN  IF h.panic THEN h
        ELSE IF ~is_freed(h.mem, block_ptr) THEN Panic(h)
        ELSE IF index >= TOTAL_COUNT THEN Panic(h)
        ELSE IF head = 0
        THEN [h EXCEPT !.mem = wr(h.mem, buffer_pointer_as(block_ptr), <<0, 0>>),
                       !.freed_block_map = set_item(@, index, block_ptr),
                       !.fl_bitmap = @ \cup {first % 32},
                       !.sl_bitmap[first] = @ \cup {second % 32}]
        ELSE [h EXCEPT !.mem = m3]

\* Mutant: the old head of the class is not pointed back at the new head.
insert_block_NoBackLink(h, block_ptr, mapping_indices) ==
    LET index == calculate_index(mapping_indices)
        head  == get_item(h.freed_block_map, index)
        m1    == wr(h.mem, buffer_pointer_as(block_ptr), <<0, head>>)
        first == mapping_indices[1]
        second == mapping_indices[2]
    IN  IF h.panic THEN h
        ELSE IF ~is_freed(h.mem, block_ptr) THEN Panic(h)
        ELSE IF index >= TOTAL_COUNT THEN Panic(h)
        ELSE IF head # 0 /\ ~is_freed(m1, head) THEN Panic(h)
        ELSE [h EXCEPT !.mem = m1,
                       !.freed_block_map = set_item(@, index, block_ptr),
                       !.fl_bitmap = @ \cup {first % 32},
                       !.sl_bitmap[first] = @ \cup {second % 32}]

insert_block(h, block_ptr, mapping_indices) ==
    LET index == calculate_index(mapping_indices)
        head  == get_item(h.freed_block_map, index)
        m1    == wr(h.mem, buffer_pointer_as(block_ptr), <<0, head>>)
        m2    == IF head = 0 THEN m1 ELSE set_free_prev(m1, head, block_ptr)
        first == mapping_indices[1]
        second == mapping_indices[2]
    IN  IF h.panic THEN h
        ELSE IF ~is_freed(h.mem, block_ptr) THEN Panic(h)
        ELSE IF index >= TOTAL_COUNT THEN Panic(h)
        ELSE IF head # 0 /\ ~is_freed(m1, head) THEN Panic(h)
        ELSE [h EXCEPT !.mem = m2,
                       !.freed_block_map = set_item(@, index, block_ptr),
                       !.fl_bitmap = @ \cup {first % 32},
                       !.sl_bitmap[first] = @ \cup {second % 32}]

\* Lines 402 and 407 of find_suitable_indices: the masks of the classes of
\* the row at and above second, and of the rows above first.
\* A second_bitmask that masks nothing: the lowest non-empty class of the row
\* is taken, whether or not it lies below the class of the request.
second_bitmask_AllOnes(second) == ShlAllOnes(0)

second_bitmask(second) == ShlAllOnes(second)

\* A first_bitmask that keeps the row of the request itself.
first_bitmask_FromRow(first) == ShlAllOnes(first)

first_bitmask(first) == ShlAllOnes(first + 1)

\* Lines 402-417 of find_suitable_indices: the search from class
\* (first, second), <<>> for None.  sl_bitmap has FIRST_INDEX_REAL rows; the
\* caller checks that first is one of them.
find_suitable_search(h, first, second) ==
    LET NextRow(row) == <<row, LsbOfBits(h.sl_bitmap[row])>>
        second_masked_bits == h.sl_bitmap[first] \cap second_bitmask(second)
        first_masked_bits  == h.fl_bitmap \cap first_bitmask(first)
    IN  IF second_masked_bits # {}
        THEN <<first, LsbOfBits(second_masked_bits)>>
        ELSE IF first_masked_bits = {}
        THEN <<>>
        ELSE NextRow(LsbOfBits(first_masked_bits))

find_suitable_indices(h, size) ==
    LET From(mapping_indices) ==
            find_suitable_search(h, mapping_indices[1], mapping_indices[2])
    IN  From(calculate_mapping_indices(calculate_allocation_size(size)))

\* Returns the state and the extracted block (0 when the class is empty).
extract_root_block(h, mapping_indices) ==
    LET index == calculate_index(mapping_indices)
        block == get_item(h.freed_block_map, index)
        next_block == free_next(h.mem, block)
        m1 == wr(h.mem, buffer_pointer_as(block), <<0, 0>>)
    IN  IF h.panic THEN [h |-> h, ret |-> 0]
        ELSE IF index >= TOTAL_COUNT THEN [h |-> Panic(h), ret |-> 0]
        ELSE IF block = 0 THEN [h |-> h, ret |-> 0]
        ELSE IF ~is_freed(h.mem, block) THEN [h |-> Panic(h), ret |-> 0]
        ELSE IF next_block = 0
        THEN [h |-> ClearClassBits([h EXCEPT !.mem = m1,
                                             !.freed_block_map = reset_item(@, index)],
                                   mapping_indices),
              ret |-> block]
        ELSE IF ~is_freed(m1, next_block) THEN [h |-> Panic(h), ret |-> 0]
        ELSE [h |-> [h EXCEPT !.mem = set_free_prev(m1, next_block, 0),
                              !.freed_block_map = set_item(@, index, next_block)],
              ret |-> block]

\* Mutant: the previous node of the list is not chained to the next node.
extract_freed_block_KeepsPrevLink(h, block_ptr) ==
    LET \* lines 505-531: the head of the class, the node reset
        ClassHead(h2, next_block, mapping_indices, index) ==
            IF index >= TOTAL_COUNT THEN Panic(h)
            ELSE IF get_item(h.freed_block_map, index) = block_ptr
            THEN IF next_block # 0
                 THEN [h2 EXCEPT !.freed_block_map = set_item(@, index, next_block)]
                 ELSE ClearClassBits([h2 EXCEPT !.freed_block_map = reset_item(@, index)],
                                     mapping_indices)
            ELSE h2
        Class(m2, mapping_indices) ==
            ClassHead([h EXCEPT !.mem = wr(m2, buffer_pointer_as(block_ptr), <<0, 0>>)],
                      free_next(m2, block_ptr), mapping_indices,
                      calculate_index(mapping_indices))
        Unlinked(m2) ==
            Class(m2, calculate_mapping_indices(buffer_size(m2, block_ptr)))
        \* the previous node keeps its next
        Prev(m1, prv) ==
            IF prv # 0 /\ ~is_freed(m1, prv) THEN Panic(h)
            ELSE Unlinked(m1)
        NextDone(m1) == Prev(m1, free_prev(m1, block_ptr))
        \* lines 486-492: the next node
        Nxt(nxt) ==
            IF nxt # 0 /\ ~is_freed(h.mem, nxt) THEN Panic(h)
            ELSE NextDone(IF nxt # 0
                          THEN set_free_prev(h.mem, nxt, free_prev(h.mem, block_ptr))
                          ELSE h.mem)
    IN  IF h.panic THEN h
        ELSE IF ~is_freed(h.mem, block_ptr) THEN Panic(h)
        ELSE Nxt(free_next(h.mem, block_ptr))

\* The steps are listed last first: the unlinking from the next node, then
\* from the previous node, then the head of the class.
extract_freed_block(h, block_ptr) ==
    LET \* lines 505-531: the head of the class, the node reset
        ClassHead(h2, next_block, mapping_indices, index) ==
            IF index >= TOTAL_COUNT THEN Panic(h)
            ELSE IF get_item(h.freed_block_map, index) = block_ptr
            THEN IF next_block # 0
                 THEN [h2 EXCEPT !.freed_block_map = set_item(@, index, next_block)]
                 ELSE ClearClassBits([h2 EXCEPT !.freed_block_map = reset_item(@, index)],
                                     mapping_indices)
            ELSE h2
        Class(m2, mapping_indices) ==
            ClassHead([h EXCEPT !.mem = wr(m2, buffer_pointer_as(block_ptr), <<0, 0>>)],
                      free_next(m2, block_ptr), mapping_indices,
                      calculate_index(mapping_indices))
        Unlinked(m2) ==
            Class(m2, calculate_mapping_indices(buffer_size(m2, block_ptr)))
        \* lines 493-499: the previous node
        Prev(m1, prv) ==
            IF prv # 0 /\ ~is_freed(m1, prv) THEN Panic(h)
            ELSE Unlinked(IF prv # 0
                          THEN set_free_next(m1, prv, free_next(m1, block_ptr))
                          ELSE m1)
        NextDone(m1) == Prev(m1, free_prev(m1, block_ptr))
        \* lines 486-492: the next node
        Nxt(nxt) ==
            IF nxt # 0 /\ ~is_freed(h.mem, nxt) THEN Panic(h)
            ELSE NextDone(IF nxt # 0
                          THEN set_free_prev(h.mem, nxt, free_prev(h.mem, block_ptr))
                          ELSE h.mem)
    IN  IF h.panic THEN h
        ELSE IF ~is_freed(h.mem, block_ptr) THEN Panic(h)
        ELSE Nxt(free_next(h.mem, block_ptr))

\* ------------------------------------------------------ lib.rs : RootPool
\* Mutant: a remainder of one header, with no room for a FreeNode, is split off.
SplitThreshold_HeaderOnly == BlockHeader_get_aligned_size

\* BLOCK_SIZE of RootPool::alloc: the smallest remainder worth splitting off.
SplitThreshold == BlockHeader_get_aligned_size + SizeOfFreeNode

\* Mutant: the remainder header is written at the block address plus the
\* size, one header too low, inside the buffer that is handed out.
SplitBlock_HeaderTooLow(h, suitable_block, aligned_size, remained_size) ==
    LET new_buffer_size == remained_size - BlockHeader_get_aligned_size
        new_block       == suitable_block + aligned_size
        Relink(m1, orig_next_block) ==
            set_buffer_size(set_previous_header(m1, orig_next_block, new_block),
                            suitable_block, aligned_size)
        Written(m1) == Relink(m1, next_block_ptr(m1, suitable_block))
    IN  IF ~is_aligned(aligned_size) THEN Panic(h)
        ELSE insert_block(
                 [h EXCEPT !.mem = Written(wr(@, new_block,
                                     BlockHeader_new(new_buffer_size, TRUE, FALSE, 0)))],
                 new_block, calculate_mapping_indices(new_buffer_size))

\* Mutant: the block behind the split block keeps pointing at the split block.
SplitBlock_NoPrevUpdate(h, suitable_block, aligned_size, remained_size) ==
    LET new_buffer_size == remained_size - BlockHeader_get_aligned_size
        new_block       == buffer_pointer_as(suitable_block) + aligned_size
        Written(m1) == set_buffer_size(m1, suitable_block, aligned_size)
    IN  IF ~is_aligned(aligned_size) THEN Panic(h)
        ELSE insert_block(
                 [h EXCEPT !.mem = Written(wr(@, new_block,
                                     BlockHeader_new(new_buffer_size, TRUE, FALSE, 0)))],
                 new_block, calculate_mapping_indices(new_buffer_size))

\* The split branch of RootPool::alloc (lines 117-139).
SplitBlock(h, suitable_block, aligned_size, remained_size) ==
    LET new_buffer_size == remained_size - BlockHeader_get_aligned_size
        new_block       == buffer_pointer_as(suitable_block) + aligned_size
        Relink(m1, orig_next_block) ==
            set_buffer_size(set_previous_header(m1, orig_next_block, new_block),
                            suitable_block, aligned_size)
        Written(m1) == Relink(m1, next_block_ptr(m1, suitable_block))
    IN  IF ~is_aligned(aligned_size) THEN Panic(h)
        ELSE insert_block(
                 [h EXCEPT !.mem = Written(wr(@, new_block,
                                     BlockHeader_new(new_buffer_size, TRUE, FALSE, 0)))],
                 new_block, calculate_mapping_indices(new_buffer_size))

\* Mutant: PREV_FREE of the successor is left as it was.
KeepWhole_LeavesFlag(h, suitable_block) == h

\* The no-split branch of RootPool::alloc (lines 114-116).
KeepWhole(h, suitable_block) ==
    [h EXCEPT !.mem = set_previous_freed(@, next_block_ptr(h.mem, suitable_block), FALSE)]

\* Lines 141-147 of RootPool::alloc: the block is marked used and counted.
RootPool_alloc_use(h2, suitable_block) ==
    LET m3 == set_freed(h2.mem, suitable_block, FALSE)
    IN  IF h2.panic THEN [h |-> h2, ret |-> 0]
        ELSE [h |-> [h2 EXCEPT !.mem = m3,
                               !.used_memory_size =
                                   @ + buffer_size_with_header(m3, suitable_block)],
              ret |-> buffer_pointer_as(suitable_block)]

\* Lines 100-139 of RootPool::alloc: the extracted block is kept whole or
\* split.  ex is what extract_root_block returned.
RootPool_alloc_fit(ex, aligned_size) ==
    LET suitable_block == ex.ret
        h1 == ex.h
        remained_size == buffer_size(h1.mem, suitable_block) - aligned_size
    IN  IF h1.panic \/ suitable_block = 0 THEN [h |-> h1, ret |-> 0]
        ELSE IF buffer_size(h1.mem, suitable_block) < aligned_size
        THEN [h |-> Panic(h1), ret |-> 0]
        ELSE RootPool_alloc_use(
                 IF remained_size < SplitThreshold
                 THEN KeepWhole(h1, suitable_block)
                 ELSE SplitBlock(h1, suitable_block, aligned_size, remained_size),
                 suitable_block)

\* Lines 95-103 of RootPool::alloc: the head of the class found is taken.
RootPool_alloc_extract(h, aligned_size, mapping_indices) ==
    IF mapping_indices = <<>> THEN [h |-> h, ret |-> 0]
    ELSE RootPool_alloc_fit(extract_root_block(h, mapping_indices), aligned_size)

\* Lines 94-98 of RootPool::alloc: the class is searched; sl_bitmap has
\* FIRST_INDEX_REAL rows.
RootPool_alloc_search(h, aligned_size) ==
    IF calculate_mapping_indices(calculate_allocation_size(aligned_size))[1]
          >= FIRST_INDEX_REAL
    THEN [h |-> Panic(h), ret |-> 0]
    ELSE RootPool_alloc_extract(h, aligned_size, find_suitable_indices(h, aligned_size))

\* RootPool::alloc: returns the state and the pointer (0 for null).
RootPool_alloc(h, size) ==
    IF h.panic THEN [h |-> h, ret |-> 0]
    ELSE RootPool_alloc_search(h, calculate_allocation_searching_size(size))

\* Lines 192-194 of RootPool::dealloc: the block behind the merged block is
\* chained to it.
MergeIntoPrevious_link(h3, prev_block_ptr) ==
    LET prev_next_block == next_block_ptr(h3.mem, prev_block_ptr)
    IN  IF h3.panic THEN h3
        ELSE [h3 EXCEPT !.mem = set_previous_header(
                                    set_previous_freed(@, prev_next_block, TRUE),
                                    prev_next_block, prev_block_ptr)]

\* Mutant: the merged block is listed under the class of its old size.
MergeIntoPrevious_grow_StaleClass(h1, block, prev_block_ptr) ==
    LET new_size == buffer_size(h1.mem, prev_block_ptr)
                      + buffer_size_with_header(h1.mem, block)
        h2 == [h1 EXCEPT !.mem = set_buffer_size(@, prev_block_ptr, new_size)]
    IN  IF h1.panic THEN h1
        ELSE IF ~is_aligned(new_size) THEN Panic(h1)
        ELSE MergeIntoPrevious_link(
                 insert_block(h2, prev_block_ptr,
                     calculate_mapping_indices(buffer_size(h1.mem, prev_block_ptr))),
                 prev_block_ptr)

\* Lines 185-190 of RootPool::dealloc: the extracted predecessor absorbs the
\* block and is inserted again.
MergeIntoPrevious_grow(h1, block, prev_block_ptr) ==
    LET new_size == buffer_size(h1.mem, prev_block_ptr)
                      + buffer_size_with_header(h1.mem, block)
        h2 == [h1 EXCEPT !.mem = set_buffer_size(@, prev_block_ptr, new_size)]
    IN  IF h1.panic THEN h1
        ELSE IF ~is_aligned(new_size) THEN Panic(h1)
        ELSE MergeIntoPrevious_link(
                 insert_block(h2, prev_block_ptr,
                     calculate_mapping_indices(buffer_size(h2.mem, prev_block_ptr))),
                 prev_block_ptr)

\* The backward-coalesce branch of RootPool::dealloc (lines 181-195).
MergeIntoPrevious(h, block) ==
    LET prev_block_ptr == previous_block_ptr(h.mem, block)
    IN  IF prev_block_ptr = 0 THEN Panic(h)
        ELSE MergeIntoPrevious_grow(extract_freed_block(h, prev_block_ptr),
                                    block, prev_block_ptr)

\* Lines 200-203 of RootPool::dealloc: the next block is chained to the
\* inserted block.
InsertFreed_link(h1, block) ==
    LET next_block == next_block_ptr(h1.mem, block)
    IN  IF h1.panic THEN h1
        ELSE [h1 EXCEPT !.mem = set_previous_header(
                                    set_previous_freed(@, next_block, TRUE),
                                    next_block, block)]

\* The no-predecessor branch of RootPool::dealloc (lines 196-204).
InsertFreed(h, block) ==
    InsertFreed_link(insert_block(h, block,
                                  calculate_mapping_indices(buffer_size(h.mem, block))),
                     block)

\* Lines 173-176 of RootPool::dealloc: the block absorbs the extracted
\* successor.
MergeNext_grow(h1, block, additional_block_size) ==
    LET new_size == buffer_size(h1.mem, block) + additional_block_size
    IN  IF h1.panic THEN h1
        ELSE IF ~is_aligned(new_size) THEN Panic(h1)
        ELSE [h1 EXCEPT !.mem = set_buffer_size(@, block, new_size)]

\* Mutant: a free successor is never merged.
MergeNext_Never(h, block) == h

\* The forward-coalesce step of RootPool::dealloc (lines 168-178).
MergeNext(h, block) ==
    LET next_block == next_block_ptr(h.mem, block)
    IN  IF ~is_freed(h.mem, next_block) THEN h
        ELSE MergeNext_grow(extract_freed_block(h, next_block), block,
                            buffer_size_with_header(h.mem, next_block))

\* Mutant: a free predecessor is never merged.
RootPool_dealloc_previous_NoBackward(h2, block) ==
    IF h2.panic THEN h2
    ELSE InsertFreed(h2, block)

\* Lines 180-204 of RootPool::dealloc: after the forward merge, the block is
\* merged into a free predecessor or inserted itself.
RootPool_dealloc_previous(h2, block) ==
    IF h2.panic THEN h2
    ELSE IF is_prev_freed(h2.mem, block)
    THEN MergeIntoPrevious(h2, block)
    ELSE InsertFreed(h2, block)

\* Mutant: the header of the freed block is not subtracted from the usage.
RootPool_dealloc_BufferOnly(h, ptr) ==
    LET block == ptr - BlockHeader_get_aligned_size
        m1 == set_freed(h.mem, block, TRUE)
        freed_size == buffer_size(m1, block)
        h1 == [h EXCEPT !.mem = wr(m1, buffer_pointer_as(block), FreeNode_new),
                        !.used_memory_size = @ - freed_size]
    IN  IF h.panic THEN h
        ELSE IF h.used_memory_size < freed_size THEN Panic(h)
        ELSE RootPool_dealloc_previous(MergeNext(h1, block), block)

RootPool_dealloc(h, ptr) ==
    LET block == ptr - BlockHeader_get_aligned_size
        m1 == set_freed(h.mem, block, TRUE)
        freed_size == buffer_size_with_header(m1, block)
        h1 == [h EXCEPT !.mem = wr(m1, buffer_pointer_as(block), FreeNode_new),
                        !.used_memory_size = @ - freed_size]
    IN  IF h.panic THEN h
        ELSE IF h.used_memory_size < freed_size THEN Panic(h)
        ELSE RootPool_dealloc_previous(MergeNext(h1, block), block)

\* ------------------------------------------ structs.rs : chunks and areas
end_block_header(m, areainfo) == rd(m, areainfo)[1]
next_area_header(m, areainfo) == rd(m, areainfo)[2]

\* Mutant: the end block header is not counted in the overhead.
initialize_pool_TwoHeaders(m, start_block_ptr, total_size) ==
    LET \* the end block, and its address in the AreaInfo
        Ended(m5, end_block_ptr) ==
            wr(m5, buffer_pointer_as(start_block_ptr),
               <<end_block_ptr, next_area_header(m5, buffer_pointer_as(start_block_ptr))>>)
        End(m4, next_block, end_block_ptr) ==
            Ended(wr(m4, end_block_ptr, BlockHeader_new(0, FALSE, TRUE, next_block)),
                  end_block_ptr)
        Filled(m4, next_block) == End(m4, next_block, next_block_ptr(m4, next_block))
        \* the block that holds all the rest of the chunk
        Sized(m2, overhead, next_block) ==
            IF ~is_aligned(total_size) \/ total_size < overhead
            THEN [ok |-> FALSE, mem |-> m]
            ELSE [ok |-> TRUE,
                  mem |-> Filled(wr(wr(m2, next_block,
                                       BlockHeader_new(total_size - overhead,
                                                       FALSE, FALSE, 0)),
                                    buffer_pointer_as(next_block), FreeNode_new),
                                 next_block)]
        \* the start block and the AreaInfo in its buffer
        Started(m2) ==
            Sized(m2,
                  buffer_size(m2, start_block_ptr) + 2 * BlockHeader_get_aligned_size,
                  next_block_ptr(m2, start_block_ptr))
    IN  Started(wr(wr(m, start_block_ptr, new_start_block),
                   buffer_pointer_as(start_block_ptr), AreaInfo_new))

\* initialize_pool: returns the memory and whether the layout was possible
\* (ok is FALSE when an assert fails or the size computation underflows).
initialize_pool(m, start_block_ptr, total_size) ==
    LET \* the end block, and its address in the AreaInfo
        Ended(m5, end_block_ptr) ==
            wr(m5, buffer_pointer_as(start_block_ptr),
               <<end_block_ptr, next_area_header(m5, buffer_pointer_as(start_block_ptr))>>)
        End(m4, next_block, end_block_ptr) ==
            Ended(wr(m4, end_block_ptr, BlockHeader_new(0, FALSE, TRUE, next_block)),
                  end_block_ptr)
        Filled(m4, next_block) == End(m4, next_block, next_block_ptr(m4, next_block))
        \* the block that holds all the rest of the chunk
        Sized(m2, overhead, next_block) ==
            IF ~is_aligned(total_size) \/ total_size < overhead
            THEN [ok |-> FALSE, mem |-> m]
            ELSE [ok |-> TRUE,
                  mem |-> Filled(wr(wr(m2, next_block,
                                       BlockHeader_new(total_size - overhead,
                                                       FALSE, FALSE, 0)),
                                    buffer_pointer_as(next_block), FreeNode_new),
                                 next_block)]
        \* the start block and the AreaInfo in its buffer
        Started(m2) ==
            Sized(m2,
                  buffer_size(m2, start_block_ptr) + 3 * BlockHeader_get_aligned_size,
                  next_block_ptr(m2, start_block_ptr))
    IN  Started(wr(wr(m, start_block_ptr, new_start_block),
                   buffer_pointer_as(start_block_ptr), AreaInfo_new))

\* TLSFChunk::new on the region the OS returned at ptr.
TLSFChunk_new(m, ptr, requested_size) ==
    initialize_pool(m, ptr, round_down_block(requested_size))

\* The empty memory.
NoMem == [x \in {} |-> ZeroCell]

\* TLSFRootChunk::new on the region the OS returned at ptr: a fresh
\* TLSFRawHeader at offset 0, the area behind it.
TLSFRootChunk_new(ptr, requested_size) ==
    LET total_area_size == round_down_block(requested_size) - TLSFRawHeader_get_aligned_size
        start_block_ptr == ptr + TLSFRawHeader_get_aligned_size
        Header(ip) ==
            IF ~ip.ok THEN Panic(TLSFRawHeader_new(NoMem))
            ELSE [TLSFRawHeader_new(ip.mem) EXCEPT
                      !.areainfo_ptr = buffer_pointer_as(start_block_ptr)]
    IN  IF round_down_block(requested_size) < TLSFRawHeader_get_aligned_size
        THEN Panic(TLSFRawHeader_new(NoMem))
        ELSE Header(initialize_pool(NoMem, start_block_ptr, total_area_size))

MINIMUM_REQUIRED_SIZE ==
    TLSFRawHeader_get_aligned_size + (BlockHeader_get_aligned_size * 3)
      + AreaInfo_get_aligned_size

\* Lines 60-85 of RootPool::from: the first block is counted as used and
\* then freed.
RootPool_from_free(h0, ptr) ==
    LET first_block == next_block_ptr(h0.mem, ptr + TLSFRawHeader_get_aligned_size)
        max == buffer_size_with_header(h0.mem, first_block)
        h1 == [h0 EXCEPT !.maximum_memory_size = max,
                         !.used_memory_size = @ + max]
    IN  IF h0.panic THEN h0
        ELSE IF is_freed(h1.mem, first_block) THEN Panic(h1)
        ELSE RootPool_dealloc(h1, buffer_pointer_as(first_block))

\* RootPool::from on the region the OS returned at ptr.  Its only caller
\* unwraps the result, so a None result is the panic of that unwrap.
RootPool_from(ptr, requested_size) ==
    IF requested_size < MINIMUM_REQUIRED_SIZE THEN Panic(TLSFRawHeader_new(NoMem))
    ELSE RootPool_from_free(TLSFRootChunk_new(ptr, requested_size), ptr)

\* An add_new_chunk that never sees a chunk as the neighbor behind an area.
is_blocks_neighbor_Never(old_bufferend_addr, new_bufferstt_addr) == FALSE

\* Line 571 of add_new_chunk: the new chunk starts where the buffer of the
\* old area's end block ends.
is_blocks_neighbor(old_bufferend_addr, new_bufferstt_addr) ==
    old_bufferend_addr = new_bufferstt_addr

\* The while loop of add_new_chunk.  st carries the pool state, the cursor
\* into the area list, the previously kept area, the three block pointers of
\* the chunk being added, and whether a `?` has returned None.
RECURSIVE AddChunkLoop(_)
AddChunkLoop(st) ==
    LET h   == st.h
        m   == h.mem
        cur == st.areainfo_cursor
        old_infoblock == cur - BlockHeader_get_aligned_size
        old_endblock  == end_block_header(m, cur)
        old_bufferend_addr == buffer_pointer_as(old_endblock)
        old_bufferstt_addr == old_infoblock
        new_bufferstt_addr == st.new_infoblock_ptr
        new_bufferend_addr == st.new_endblock_ptr
        old_firstblock == next_block_ptr(m, old_infoblock)
        is_blocks_neighbor_reverse == old_bufferstt_addr = new_bufferend_addr
        next_areainfo_ptr == next_area_header(m, cur)
        \* unlink the old area from the list
        hU == IF h.areainfo_ptr = cur
              THEN [h EXCEPT !.areainfo_ptr = next_areainfo_ptr]
              ELSE [h EXCEPT !.mem = wr(@, st.previous_areainfo,
                                        <<end_block_header(m, st.previous_areainfo),
                                          next_areainfo_ptr>>)]
        mU == hU.mem
        \* forward adjacency: the old end block absorbs the new start and first block
        fwd_size == buffer_size_with_header(mU, st.new_firstblock_ptr)
                      + buffer_size_with_header(mU, st.new_infoblock_ptr)
        mF1 == set_buffer_size(mU, old_endblock, fwd_size)
        mF2 == set_previous_header(mF1, next_block_ptr(mF1, old_endblock), old_endblock)
        \* reverse adjacency: the new first block absorbs the old start block
        mR1 == set_previous_header(mU, old_firstblock, st.new_firstblock_ptr)
        rev_size == buffer_size_with_header(mR1, st.new_firstblock_ptr)
                      + buffer_size_with_header(mR1, old_infoblock)
        mR2 == set_buffer_size(mR1, st.new_firstblock_ptr, rev_size)
    IN  IF cur = 0 \/ st.none \/ h.panic THEN st
        ELSE IF old_endblock = 0 \/ is_freed(m, old_endblock)
        THEN [st EXCEPT !.none = TRUE]
        ELSE IF ~(is_blocks_neighbor(old_bufferend_addr, new_bufferstt_addr)
                    \/ is_blocks_neighbor_reverse)
        THEN AddChunkLoop([st EXCEPT !.previous_areainfo = cur,
                                     !.areainfo_cursor = next_areainfo_ptr])
        ELSE IF h.areainfo_ptr # cur /\ st.previous_areainfo = 0
        THEN [st EXCEPT !.h = Panic(h)]
        ELSE IF is_blocks_neighbor(old_bufferend_addr, new_bufferstt_addr)
        THEN IF ~is_aligned(fwd_size) THEN [st EXCEPT !.h = Panic(hU)]
             ELSE AddChunkLoop([st EXCEPT !.h = [hU EXCEPT !.mem = mF2],
                                          !.areainfo_cursor = next_areainfo_ptr,
                                          !.new_firstblock_ptr = old_endblock,
                                          !.new_infoblock_ptr = old_infoblock])
        ELSE IF ~is_aligned(rev_size) THEN [st EXCEPT !.h = Panic([hU EXCEPT !.mem = mR1])]
             ELSE AddChunkLoop([st EXCEPT !.h = [hU EXCEPT !.mem = mR2],
                                          !.areainfo_cursor = next_areainfo_ptr,
                                          !.new_endblock_ptr = old_endblock])

\* Lines 619-630 of add_new_chunk: the area left by the loop is put at the
\* head of the list and counted.
add_new_chunk_insert(st) ==
    LET h1 == st.h
        final_areainfo == buffer_pointer_as(st.new_infoblock_ptr)
        m2 == wr(h1.mem, final_areainfo, <<st.new_endblock_ptr, h1.areainfo_ptr>>)
        new_buffer_size == buffer_size_with_header(m2, st.new_firstblock_ptr)
        h2 == [h1 EXCEPT !.mem = m2,
                         !.areainfo_ptr = final_areainfo,
                         !.used_memory_size = @ + new_buffer_size,
                         !.maximum_memory_size = @ + new_buffer_size]
    IN  IF h1.panic \/ st.none THEN [h |-> h1, ret |-> 0]
        ELSE IF is_freed(h1.mem, st.new_infoblock_ptr) THEN [h |-> h1, ret |-> 0]
        ELSE IF is_freed(h2.mem, st.new_firstblock_ptr) THEN [h |-> h2, ret |-> 0]
        ELSE [h |-> h2, ret |-> buffer_pointer_as(st.new_firstblock_ptr)]

\* add_new_chunk: returns the state and the buffer pointer of the block to
\* free (0 for None).
add_new_chunk(h, new_chunk_ptr) ==
    LET first0 == next_block_ptr(h.mem, new_chunk_ptr)
    IN  IF h.panic THEN [h |-> h, ret |-> 0]
        ELSE add_new_chunk_insert(
                 AddChunkLoop([h |-> h, areainfo_cursor |-> h.areainfo_ptr,
                               previous_areainfo |-> 0,
                               new_infoblock_ptr |-> new_chunk_ptr,
                               new_firstblock_ptr |-> first0,
                               new_endblock_ptr |-> next_block_ptr(h.mem, first0),
                               none |-> FALSE]))

\* --------------------------------------------------- lib.rs : DynamicPool
\* Capacity of the ArrayVec of additional chunks.
ChunkCapacity == 32

\* Layout::pad_to_align().size(): the size rounded up to the alignment.
pad_to_align_size(size, align) == ((size + align - 1) \div align) * align

\* A capacity test that lets one chunk too many through.
TableFull_OffByOne(len) == len > ChunkCapacity

\* Line 258 of DynamicPool::alloc: no slot is left for another chunk.
TableFull(len) == len >= ChunkCapacity

\* ---- the OS primitive (System.allocate_zeroed), as the environment
\* Address of the first region the OS hands out, and the distance between
\* the regions it hands out far from every other one.
OsBase == 2 ^ 27
OsFarGap == 2 ^ 27

NoChunk == [ptr |-> 0, size |-> 0]

\* The regions the pool holds: the root chunk and the additional chunks.
Regions(d) ==
    (IF d.root_pool.ptr = 0 THEN {} ELSE {d.root_pool})
      \cup {d.additional_chunks[i] : i \in 1..Len(d.additional_chunks)}

RegionOf(d, k) == IF k = 0 THEN d.root_pool ELSE d.additional_chunks[k]

\* Where the OS puts a new region of n bytes: right behind region k, right
\* in front of region k, or far from all of them.  0 when it refuses; it
\* never hands out a region overlapping one that is still allocated, and in
\* the explored runs it refuses once MaxAux additional chunks exist.
OsAnswer(place, d, n) ==
    LET kind == place[1]
        k    == place[2]
        addr == IF kind = "far" THEN OsBase + OsFarGap * (Len(d.additional_chunks) + 1)
                ELSE IF k > Len(d.additional_chunks) THEN 0
                ELSE IF kind = "after"
                THEN round_up_block(RegionOf(d, k).ptr + RegionOf(d, k).size)
                ELSE IF kind = "before" THEN RegionOf(d, k).ptr - n
                ELSE 0
    IN  IF kind = "refuse" \/ Len(d.additional_chunks) >= MaxAux THEN 0
        ELSE IF addr <= 0 \/ ~is_aligned(addr) THEN 0
        ELSE IF \E c \in Regions(d) : addr < c.ptr + c.size /\ c.ptr < addr + n THEN 0
        ELSE addr

Places ==
    {<<"refuse", 0>>, <<"far", 0>>}
      \cup {<<"after", k>> : k \in 0..MaxAux} \cup {<<"before", k>> : k \in 0..MaxAux}

\* What DynamicPool::alloc leaves and returns: the new d, the pointer (0 for
\* null), whether the root pool was created by this call, and which requests
\* for an additional chunk reached the OS and were granted.
Outcome(d1, h, chunks, ret, asked, grew) ==
    [d |-> [d1 EXCEPT !.h = h, !.additional_chunks = chunks],
     ret |-> ret, made_root |-> FALSE, asked_aux |-> asked, grew |-> grew]

\* Lines 241-245 and 294-299 of DynamicPool::alloc: the second attempt ends
\* the loop.
DynamicPool_alloc_retried(d1, chunks2, r2) ==
    Outcome(d1, r2.h, chunks2, IF r2.h.panic THEN 0 ELSE r2.ret, TRUE, TRUE)

\* Lines 289-291 of DynamicPool::alloc: the block add_new_chunk returned is
\* freed, and the loop runs again.
DynamicPool_alloc_retry(d1, chunks2, ac, size) ==
    IF ac.h.panic \/ ac.ret = 0 THEN Outcome(d1, Panic(ac.h), chunks2, 0, TRUE, TRUE)
    ELSE DynamicPool_alloc_retried(d1, chunks2,
             RootPool_alloc(RootPool_dealloc(ac.h, ac.ret), size))

\* A DynamicPool::alloc that registers the chunk in additional_chunks before
\* it knows whether the OS supplied it.
DynamicPool_alloc_chunk_RegistersFirst(d1, h1, new_chunk_size, aux_ptr, size) ==
    LET ip == TLSFChunk_new(h1.mem, aux_ptr, new_chunk_size)
        chunks2 == Append(d1.additional_chunks, [ptr |-> aux_ptr, size |-> new_chunk_size])
    IN  IF aux_ptr = 0 THEN Outcome(d1, h1, chunks2, 0, TRUE, FALSE)
        ELSE IF ~ip.ok THEN Outcome(d1, Panic(h1), chunks2, 0, TRUE, FALSE)
        ELSE DynamicPool_alloc_retry(d1, chunks2,
                 add_new_chunk([h1 EXCEPT !.mem = ip.mem], aux_ptr), size)

\* Lines 279-288 of DynamicPool::alloc: the chunk the OS returned at aux_ptr
\* is laid out, registered and added to the pool.
DynamicPool_alloc_chunk(d1, h1, new_chunk_size, aux_ptr, size) ==
    LET ip == TLSFChunk_new(h1.mem, aux_ptr, new_chunk_size)
        chunks2 == Append(d1.additional_chunks, [ptr |-> aux_ptr, size |-> new_chunk_size])
    IN  IF aux_ptr = 0 THEN Outcome(d1, h1, d1.additional_chunks, 0, TRUE, FALSE)
        ELSE IF ~ip.ok THEN Outcome(d1, Panic(h1), d1.additional_chunks, 0, TRUE, FALSE)
        ELSE DynamicPool_alloc_retry(d1, chunks2,
                 add_new_chunk([h1 EXCEPT !.mem = ip.mem], aux_ptr), size)

\* Lines 240-278 of DynamicPool::alloc: the first attempt, and the size of
\* the chunk to ask for when it finds nothing.
DynamicPool_alloc_first(d1, r1, size, place) ==
    LET len == Len(d1.additional_chunks)
        h1 == r1.h
        last_chunk_size == IF len = 0 THEN h1.maximum_memory_size
                           ELSE d1.additional_chunks[len].size
        new_chunk_size == next_chunk_size(h1.maximum_memory_size, last_chunk_size,
                                          calculate_allocation_size(size))
    IN  IF r1.h.panic THEN Outcome(d1, r1.h, d1.additional_chunks, 0, FALSE, FALSE)
        ELSE IF r1.ret # 0 THEN Outcome(d1, r1.h, d1.additional_chunks, r1.ret, FALSE, FALSE)
        ELSE IF TableFull(len) THEN Outcome(d1, h1, d1.additional_chunks, 0, FALSE, FALSE)
        ELSE DynamicPool_alloc_chunk(d1, h1, new_chunk_size,
                                     OsAnswer(place, d1, new_chunk_size), size)

\* Lines 235-241 of DynamicPool::alloc: the root pool is there.
DynamicPool_alloc_rooted(d1, size, place) ==
    IF d1.h.panic THEN Outcome(d1, d1.h, d1.additional_chunks, 0, FALSE, FALSE)
    ELSE DynamicPool_alloc_first(d1, RootPool_alloc(d1.h, size), size, place)

\* DynamicPool::alloc.  d is [h, root_pool, additional_chunks]; root_ptr is
\* the OS's answer to the root chunk request (0 when it refuses) and place
\* its answer to the auxiliary chunk request.
DynamicPool_alloc(d, size, align, root_ptr, place) ==
    LET root_size == next_chunk_size(0, 0, pad_to_align_size(size, align))
        need_root == d.root_pool.ptr = 0
        d1 == IF ~need_root THEN d
              ELSE IF root_ptr = 0 THEN [d EXCEPT !.h = Panic(@)]
              ELSE [d EXCEPT !.h = RootPool_from(root_ptr, root_size),
                             !.root_pool = [ptr |-> root_ptr, size |-> root_size]]
    IN  [DynamicPool_alloc_rooted(d1, size, place) EXCEPT !.made_root = need_root]

\* DynamicPool::dealloc.
DynamicPool_dealloc(d, ptr) ==
    IF ptr = 0 \/ d.root_pool.ptr = 0 THEN [d EXCEPT !.h = Panic(@)]
    ELSE [d EXCEPT !.h = RootPool_dealloc(@, ptr)]

\* ------------------------------------------- the pool's data structures
\* Upper bound on the blocks of one area and on the areas of the pool in
\* the explored runs; it only stops a walk over a corrupted structure.
WalkFuel == 4 * (MaxLive + MaxAux + 2)

\* The areas of the area list, from the head, as AreaInfo addresses.
RECURSIVE AreaSeq(_, _, _)
AreaSeq(m, areainfo, fuel) ==
    IF areainfo = 0 \/ fuel = 0 THEN <<>>
    ELSE <<areainfo>> \o AreaSeq(m, next_area_header(m, areainfo), fuel - 1)

\* The block headers met by next_block_ptr steps from block b up to and
\* including the block end.
RECURSIVE BlockSeq(_, _, _, _)
BlockSeq(m, b, end, fuel) ==
    IF fuel = 0 THEN <<>>
    ELSE IF b = end THEN <<b>>
    ELSE <<b>> \o BlockSeq(m, next_block_ptr(m, b), end, fuel - 1)

\* The blocks of the area whose AreaInfo is at areainfo: start sentinel first.
AreaBlocks(m, areainfo) ==
    BlockSeq(m, areainfo - BlockHeader_get_aligned_size,
             end_block_header(m, areainfo), WalkFuel)

Range(f) == {f[i] : i \in DOMAIN f}

Areas(h) == AreaSeq(h.mem, h.areainfo_ptr, WalkFuel)

\* Every block header of the pool.
AllBlocks(h) == UNION {Range(AreaBlocks(h.mem, a)) : a \in Range(Areas(h))}

\* The cells that hold the pool's data structures: every block header, the
\* AreaInfo of every start sentinel and the FreeNode of every free block.
StructureCells(h) ==
    AllBlocks(h)
      \cup Range(Areas(h))
      \cup {buffer_pointer_as(b) : b \in {x \in AllBlocks(h) : is_freed(h.mem, x)}}

\* The rest of a buffer is not the allocator's: what it holds (old headers
\* of blocks that were coalesced away, bytes of the client) is not kept.
\* No operation on a well-formed pool reads such a cell before writing it.
ForgetBufferBytes(h) ==
    IF h.panic THEN h
    ELSE [h EXCEPT !.mem = [x \in (DOMAIN h.mem) \cap StructureCells(h) |-> h.mem[x]]]

\* Every area's walk ends at its end block, and no block lies in two areas.
WalksComplete(h) ==
    /\ \A a \in Range(Areas(h)) :
          LET bs == AreaBlocks(h.mem, a)
          IN  /\ Len(bs) >= 3
              /\ bs[Len(bs)] = end_block_header(h.mem, a)
              /\ \A i, j \in DOMAIN bs : bs[i] = bs[j] => i = j
    /\ \A a1, a2 \in Range(Areas(h)) :
          a1 # a2 => Range(AreaBlocks(h.mem, a1)) \cap Range(AreaBlocks(h.mem, a2)) = {}
    /\ \A i, j \in DOMAIN Areas(h) : Areas(h)[i] = Areas(h)[j] => i = j

\* ------------------------------------------------------------ state machine
VARIABLES
    mem,                  \* the written memory cells of all chunks
    fl_bitmap,            \* TLSFRawHeader fields
    sl_bitmap,
    areainfo_ptr,
    freed_block_map,
    maximum_memory_size,
    used_memory_size,
    panic,                \* the process has aborted
    root_pool,            \* DynamicPool.root_pool: its chunk, NoChunk for None
    additional_chunks,    \* DynamicPool.additional_chunks
    live,                 \* client: pointer -> requested size, not yet freed
    root_init,            \* history: the header right after RootPool::from
    last,                 \* history: the kind of the last operation
    alloc_calls,          \* history: the number of alloc calls so far
    ret,                  \* history: what the last alloc returned, 0 for null
    asked_aux,            \* history: the last alloc asked the OS for a chunk
    layout_align,         \* history: layout.align() of the last alloc
    pc,                   \* where each calling thread is in TLSFAllocator
    mutex,                \* TLSFAllocator.pool's spin lock is taken
    fn_in,                \* the arguments of a call that is followed on its own
    fn_out                \* what the call returned, or where it stands

vars == <<mem, fl_bitmap, sl_bitmap, areainfo_ptr, freed_block_map,
          maximum_memory_size, used_memory_size, panic, root_pool,
          additional_chunks, live, root_init, last, alloc_calls,
          ret, asked_aux, layout_align, pc, mutex, fn_in, fn_out>>

\* The fields of the TLSFRawHeader, without the memory behind it.
HeaderOf(h) ==
    [fl_bitmap |-> h.fl_bitmap, sl_bitmap |-> h.sl_bitmap,
     areainfo_ptr |-> h.areainfo_ptr, freed_block_map |-> h.freed_block_map,
     maximum_memory_size |-> h.maximum_memory_size,
     used_memory_size |-> h.used_memory_size]

Heap ==
    [mem |-> mem, fl_bitmap |-> fl_bitmap, sl_bitmap |-> sl_bitmap,
     areainfo_ptr |-> areainfo_ptr, freed_block_map |-> freed_block_map,
     maximum_memory_size |-> maximum_memory_size,
     used_memory_size |-> used_memory_size, panic |-> panic]

Pool == [h |-> Heap, root_pool |-> root_pool, additional_chunks |-> additional_chunks]

SetPool(d) ==
    /\ mem' = ForgetBufferBytes(d.h).mem
    /\ fl_bitmap' = d.h.fl_bitmap
    /\ sl_bitmap' = d.h.sl_bitmap
    /\ areainfo_ptr' = d.h.areainfo_ptr
    /\ freed_block_map' = d.h.freed_block_map
    /\ maximum_memory_size' = d.h.maximum_memory_size
    /\ used_memory_size' = d.h.used_memory_size
    /\ panic' = d.h.panic
    /\ root_pool' = d.root_pool
    /\ additional_chunks' = d.additional_chunks

\* The alignments the client asks for: one below BLOCK_ALIGNOF, one above.
Aligns == {8, 32}

Threads == 1..NumThreads

\* No call is followed on its own.
NoCall == [f |-> "none"]

\* DynamicPool::new(): no root pool, no chunks.
NewPool ==
    /\ mem = NoMem
    /\ fl_bitmap = {}
    /\ sl_bitmap = [i \in 0..(FIRST_INDEX_REAL - 1) |-> {}]
    /\ areainfo_ptr = 0
    /\ freed_block_map = FreeNodeHeaderMap_new
    /\ maximum_memory_size = 0
    /\ used_memory_size = 0
    /\ panic = FALSE
    /\ root_pool = NoChunk
    /\ additional_chunks = <<>>
    /\ live = NoMem
    /\ root_init = HeaderOf(TLSFRawHeader_new(NoMem))
    /\ last = "none"
    /\ alloc_calls = 0
    /\ ret = None
    /\ asked_aux = FALSE
    /\ layout_align = 0
    /\ pc = [t \in Threads |-> "idle"]
    /\ mutex = FALSE

Init == NewPool /\ fn_in = NoCall /\ fn_out = NoCall

\* Whether RootPool::alloc finds no block for the request in the current pool.
Misses(size) ==
    find_suitable_indices(Heap, calculate_allocation_searching_size(size)) = <<>>

\* What the client and the history keep of a call of alloc that returned r.
AllocReturns(r, size, align, root_ptr) ==
    /\ SetPool(r.d)
    /\ live' = IF r.ret # 0
               THEN [x \in (DOMAIN live) \cup {r.ret} |->
                        IF x = r.ret THEN size ELSE live[x]]
               ELSE live
    /\ root_init' = IF r.made_root /\ root_ptr # 0
                    THEN HeaderOf(RootPool_from(root_ptr,
                            next_chunk_size(0, 0, pad_to_align_size(size, align))))
                    ELSE root_init
    /\ last' = IF r.grew THEN "grow" ELSE "alloc"
    /\ ret' = IF r.d.h.panic THEN None ELSE r.ret
    /\ asked_aux' = r.asked_aux
    /\ layout_align' = align
    /\ UNCHANGED <<fn_in, fn_out>>

\* TLSFAllocator::alloc (the mutex is held for the whole call).  The OS is
\* asked for a root chunk only when there is none, and for an additional
\* chunk only when the first attempt finds no block.
Alloc(size, align, root_ptr, place) ==
    /\ ~panic
    /\ Cardinality(DOMAIN live) < MaxLive
    /\ alloc_calls < MaxAllocCalls
    /\ alloc_calls' = alloc_calls + 1
    /\ IF root_pool.ptr = 0 THEN place = <<"refuse", 0>> ELSE root_ptr = OsBase
    /\ (root_pool.ptr # 0 /\ Misses(size)) \/ place = <<"refuse", 0>>
    /\ AllocReturns(DynamicPool_alloc(Pool, size, align, root_ptr, place),
                    size, align, root_ptr)

\* TLSFAllocator::dealloc of a pointer the client holds.
Free(ptr) ==
    /\ ~panic
    /\ ptr \in DOMAIN live
    /\ SetPool(DynamicPool_dealloc(Pool, ptr))
    /\ live' = [x \in (DOMAIN live) \ {ptr} |-> live[x]]
    /\ root_init' = root_init
    /\ last' = "free"
    /\ alloc_calls' = alloc_calls
    /\ ret' = None
    /\ asked_aux' = FALSE
    /\ layout_align' = 0
    /\ UNCHANGED <<fn_in, fn_out>>

\* The pool, what the client holds of it and the history of its calls.
PoolState == <<mem, fl_bitmap, sl_bitmap, areainfo_ptr, freed_block_map,
               maximum_memory_size, used_memory_size, panic, root_pool,
               additional_chunks, live, root_init, last, alloc_calls,
               ret, asked_aux, layout_align>>

\* One caller: every call runs from its entry to its return in one step.
Next ==
    \/ \E size \in ReqSizes, align \in Aligns, root_ptr \in {0, OsBase}, place \in Places :
          Alloc(size, align, root_ptr, place) /\ UNCHANGED <<pc, mutex>>
    \/ \E ptr \in DOMAIN live : Free(ptr) /\ UNCHANGED <<pc, mutex>>

Spec == Init /\ [][Next]_vars

\* ------------------------------------------- requests that outgrow a chunk
\* The same allocator and the same OS, with a client whose requests are
\* larger than what the chunks before them leave free, so that the pool
\* grows by a second additional chunk: 3000000 bytes do not fit the 2 MiB
\* root chunk, 14000000 bytes do not fit what is left of the 16 MiB chunk
\* grown for them.
GrowSizes == {24, 3000000, 14000000}

GrowNext ==
    \/ \E size \in GrowSizes, root_ptr \in {0, OsBase}, place \in Places :
          Alloc(size, BLOCK_ALIGNOF, root_ptr, place) /\ UNCHANGED <<pc, mutex>>
    \/ \E ptr \in DOMAIN live : Free(ptr) /\ UNCHANGED <<pc, mutex>>

GrowSpec == Init /\ [][GrowNext]_vars

\* ------------------------------------------ a chain of neighbouring chunks
\* The same allocator and the same OS once more, with a client whose alloc
\* calls ask for the sizes of ChainSizes in turn.  Each request outgrows the
\* chunk grown for the one before (16 MiB, 64 MiB, 256 MiB and 1 GiB after
\* the 2 MiB root chunk), so that the pool grows to four additional chunks,
\* which the OS may lay out in one line.  A run is followed as long as every
\* area can be walked from its start block to its end block: what the code
\* does with a pool broken in that way depends on bytes inside the buffers,
\* which the memory of the model does not keep.
ChainSizes == <<24, 3000000, 14000000, 60000000, 230000000>>

ChainNext ==
    \/ /\ WalksComplete(Heap)
       /\ alloc_calls < Len(ChainSizes)
       /\ \E place \in Places :
             Alloc(ChainSizes[alloc_calls + 1], BLOCK_ALIGNOF, OsBase, place)
       /\ UNCHANGED <<pc, mutex>>
    \/ /\ WalksComplete(Heap)
       /\ \E ptr \in DOMAIN live : Free(ptr)
       /\ UNCHANGED <<pc, mutex>>

ChainSpec == Init /\ [][ChainNext]_vars

\* ------------------------------------------- the functions on their own
\* The size-class functions of function.rs, the search of the index and
\* next_chunk_size, each called once with arguments drawn from the sets
\* below; the pool itself stays as DynamicPool::new() left it.
\*
\* The classes calculate_mapping_indices gives to multiples of BLOCK_ALIGNOF
\* from MINIMUM_BLOCK_SIZE on: row 0 has a class every 4 bytes, row 1 every
\* 4, row 2 every 8, and the rows above every 16 bytes or more.
IsBlockClass(c) ==
    \/ c[1] = 0 /\ c[2] % 4 = 0 /\ c[2] >= MINIMUM_BLOCK_SIZE \div 4
    \/ c[1] = 1 /\ c[2] % 4 = 0
    \/ c[1] = 2 /\ c[2] % 2 = 0
    \/ c[1] >= 3

\* Index states: at most two non-empty classes, in the first, the second, a
\* middle and the last row, with the bitmaps set as insert_block sets them.
FindClasses ==
    {c \in {0, 1, 7, FIRST_INDEX_REAL - 1} \X {0, 4, 8, 20, 31} : IsBlockClass(c)}

IndexWith(S) ==
    [TLSFRawHeader_new(NoMem) EXCEPT
        !.fl_bitmap = {c[1] : c \in S},
        !.sl_bitmap = [i \in 0..(FIRST_INDEX_REAL - 1) |->
                          {c[2] : c \in {x \in S : x[1] = i}}]]

\* The class a search starts from: calculate_mapping_indices gives every
\* first index up to msb(usize::MAX) - FIRST_INDEX_OFFSET, whatever the
\* number of rows of the index.
FindRequests ==
    {c \in {0, 1, 7, 28, 29, 30, 31} \X {0, 4, 8, 12, 31} : IsBlockClass(c)}

\* Words for calculate_msb and calculate_lsb: 0, every small value, and the
\* powers of two with their neighbours and odd multiples, across four bytes.
WordValues ==
    (0..300) \cup UNION {{2 ^ k - 1, 2 ^ k, 2 ^ k + 1, 3 * 2 ^ (k - 1), 2 ^ k + 2 ^ (k - 1) + 1}
                             : k \in 1..30}

\* Block headers <<previous_header, stored_size>>: a size that is a multiple
\* of BLOCK_ALIGNOF with each combination of the two flags, with and
\* without a previous block.
HeaderCells ==
    {<<prev, size + flags>> :
        prev \in {0, OsBase + 7872}, size \in {0, 16, 32, 208, 2089136},
        flags \in {0, FREED_MASK, PREV_FREED_MASK, FREED_MASK + PREV_FREED_MASK}}

\* Where the header a setter is called on lies.
HeaderAt == OsBase + 7920

FnInputs ==
    {[f |-> "find_suitable_indices", classes |-> {a, b}, first |-> fs[1], second |-> fs[2]] :
        a \in FindClasses, b \in FindClasses, fs \in FindRequests}
    \cup
    {[f |-> "find_suitable_indices", classes |-> {}, first |-> fs[1], second |-> fs[2]] :
        fs \in FindRequests}
    \cup
    {[f |-> "calculate_allocation_searching_size", req |-> rb[1], block_size |-> rb[2]] :
        rb \in ((1..300) \cup {1000, 4000, 4090, 65000, 1500000})
                 \X ({16 * k : k \in 1..24}
                       \cup {992, 1008, 1024, 3968, 3984, 4032, 4096, 64512, 65536,
                             1474560, 1490944, 1507328})}
    \cup
    {[f |-> "next_chunk_size", total |-> tl[1], last_chunk_size |-> tl[2], size |-> n] :
        tl \in {<<0, 0>>, <<2089264, 2089264>>, <<16769328, 16769328>>,
                <<6267744, 4178528>>, <<18866432, 16777216>>, <<85975248, 67108864>>},
        n \in {16, 32, 1000, 1024, 4096, 524288, 1500000, 3000000, 4194304,
               14000000, 60000000}}
    \cup
    {[f |-> g, value |-> v] :
        g \in {"calculate_msb", "calculate_lsb"}, v \in WordValues}
    \cup
    {[f |-> "set_freed", header |-> hd, flag |-> b] : hd \in HeaderCells, b \in BOOLEAN}
    \cup
    {[f |-> "set_previous_freed", header |-> hd, flag |-> b] :
        hd \in HeaderCells, b \in BOOLEAN}
    \cup
    {[f |-> "set_buffer_size", header |-> hd, size |-> n] :
        hd \in HeaderCells, n \in {0, 16, 24, 32, 208, 2089136}}

FnInit == NewPool /\ fn_in \in FnInputs /\ fn_out = NoCall

\* find_suitable_indices from the class (first, second): the index
\* self.sl_bitmap[first] of line 403 is out of bounds, a panic, when first
\* is not one of the FIRST_INDEX_REAL rows.
Call_find_suitable_indices ==
    /\ fn_out = NoCall
    /\ fn_in.f = "find_suitable_indices"
    /\ fn_out' = IF fn_in.first >= FIRST_INDEX_REAL
                 THEN [f |-> fn_in.f, panic |-> TRUE, found |-> <<>>]
                 ELSE [f |-> fn_in.f, panic |-> FALSE,
                       found |-> find_suitable_search(IndexWith(fn_in.classes),
                                                      fn_in.first, fn_in.second)]
    /\ UNCHANGED <<fn_in, pc, mutex, PoolState>>

Call_calculate_allocation_searching_size ==
    /\ fn_out = NoCall
    /\ fn_in.f = "calculate_allocation_searching_size"
    /\ fn_out' = [f |-> fn_in.f,
                  allocation_size |-> calculate_allocation_size(fn_in.req),
                  searching_size |-> calculate_allocation_searching_size(fn_in.req),
                  indices |-> calculate_mapping_indices(
                                  calculate_allocation_searching_size(fn_in.req)),
                  block_indices |-> calculate_mapping_indices(fn_in.block_size)]
    /\ UNCHANGED <<fn_in, pc, mutex, PoolState>>

Call_next_chunk_size ==
    /\ fn_out = NoCall
    /\ fn_in.f = "next_chunk_size"
    /\ fn_out' = [f |-> fn_in.f,
                  aligned_size |-> next_chunk_aligned_size(fn_in.size),
                  chunk |-> next_chunk_size(fn_in.total, fn_in.last_chunk_size, fn_in.size)]
    /\ UNCHANGED <<fn_in, pc, mutex, PoolState>>

Call_calculate_msb ==
    /\ fn_out = NoCall
    /\ fn_in.f = "calculate_msb"
    /\ fn_out' = [f |-> fn_in.f, index |-> calculate_msb(fn_in.value)]
    /\ UNCHANGED <<fn_in, pc, mutex, PoolState>>

Call_calculate_lsb ==
    /\ fn_out = NoCall
    /\ fn_in.f = "calculate_lsb"
    /\ fn_out' = [f |-> fn_in.f, index |-> calculate_lsb(fn_in.value)]
    /\ UNCHANGED <<fn_in, pc, mutex, PoolState>>

\* The header after a setter ran on the header cell hd.
AfterSetter(Setter(_, _), hd) == rd(Setter(wr(NoMem, HeaderAt, hd), HeaderAt), HeaderAt)

Call_set_freed ==
    /\ fn_out = NoCall
    /\ fn_in.f = "set_freed"
    /\ LET Set(m, b) == set_freed(m, b, fn_in.flag)
       IN  fn_out' = [f |-> fn_in.f, panic |-> FALSE,
                      header |-> AfterSetter(Set, fn_in.header)]
    /\ UNCHANGED <<fn_in, pc, mutex, PoolState>>

Call_set_previous_freed ==
    /\ fn_out = NoCall
    /\ fn_in.f = "set_previous_freed"
    /\ LET Set(m, b) == set_previous_freed(m, b, fn_in.flag)
       IN  fn_out' = [f |-> fn_in.f, panic |-> FALSE,
                      header |-> AfterSetter(Set, fn_in.header)]
    /\ UNCHANGED <<fn_in, pc, mutex, PoolState>>

\* set_buffer_size: assert!(is_aligned(size)) panics before anything is
\* written.
Call_set_buffer_size ==
    /\ fn_out = NoCall
    /\ fn_in.f = "set_buffer_size"
    /\ LET Set(m, b) == set_buffer_size(m, b, fn_in.size)
       IN  fn_out' = IF ~is_aligned(fn_in.size)
                     THEN [f |-> fn_in.f, panic |-> TRUE, header |-> fn_in.header]
                     ELSE [f |-> fn_in.f, panic |-> FALSE,
                           header |-> AfterSetter(Set, fn_in.header)]
    /\ UNCHANGED <<fn_in, pc, mutex, PoolState>>

FnNext ==
    \/ Call_find_suitable_indices
    \/ Call_calculate_allocation_searching_size
    \/ Call_next_chunk_size
    \/ Call_calculate_msb
    \/ Call_calculate_lsb
    \/ Call_set_freed
    \/ Call_set_previous_freed
    \/ Call_set_buffer_size

FnSpec == FnInit /\ [][FnNext]_vars

\* ------------------------------------------------ several calling threads
\* TLSFAllocator::alloc and ::dealloc are `self.pool.lock().alloc(layout)`
\* and `self.pool.lock().dealloc(ptr, layout)`: the caller spins on the lock,
\* runs the body of DynamicPool with the guard alive, and the guard is
\* dropped, which releases the lock, at the end of the statement.
\* pc[t] is "idle" outside the allocator, "alloc_lock" / "dealloc_lock" while
\* spinning, "alloc_body" / "dealloc_body" with the lock taken and the body
\* still to run, "unlock" with the body done and the guard still alive.
Pending(states) == Cardinality({t \in Threads : pc[t] \in states})

PoolVars == <<PoolState, fn_in, fn_out>>

\* A thread enters TLSFAllocator::alloc.  The callers make MaxThreadCalls
\* alloc calls between them and hold at most MaxLive blocks.
TLSFAllocator_alloc_enter(t) ==
    /\ ~panic
    /\ pc[t] = "idle"
    /\ alloc_calls + Pending({"alloc_lock", "alloc_body"}) < MaxThreadCalls
    /\ Cardinality(DOMAIN live) + Pending({"alloc_lock", "alloc_body"}) < MaxLive
    /\ pc' = [pc EXCEPT ![t] = "alloc_lock"]
    /\ UNCHANGED <<mutex, PoolVars>>

\* A thread enters TLSFAllocator::dealloc with a pointer that it holds and
\* that no other thread is freeing.
TLSFAllocator_dealloc_enter(t) ==
    /\ ~panic
    /\ pc[t] = "idle"
    /\ Pending({"dealloc_lock", "dealloc_body"}) < Cardinality(DOMAIN live)
    /\ pc' = [pc EXCEPT ![t] = "dealloc_lock"]
    /\ UNCHANGED <<mutex, PoolVars>>

\* A Mutex::lock that takes the lock without looking at it.
Mutex_lock_NoTest(t) ==
    /\ ~panic
    /\ pc[t] \in {"alloc_lock", "dealloc_lock"}
    /\ mutex' = TRUE
    /\ pc' = [pc EXCEPT ![t] = IF pc[t] = "alloc_lock" THEN "alloc_body"
                                ELSE "dealloc_body"]
    /\ UNCHANGED PoolVars

\* spin::Mutex::lock: the compare-and-swap of the lock from free to taken
\* succeeds; while the lock is taken the caller keeps spinning.
Mutex_lock(t) ==
    /\ ~panic
    /\ pc[t] \in {"alloc_lock", "dealloc_lock"}
    /\ ~mutex
    /\ mutex' = TRUE
    /\ pc' = [pc EXCEPT ![t] = IF pc[t] = "alloc_lock" THEN "alloc_body"
                                ELSE "dealloc_body"]
    /\ UNCHANGED PoolVars

\* The body of TLSFAllocator::alloc: DynamicPool::alloc under the guard.
TLSFAllocator_alloc_body(t) ==
    /\ pc[t] = "alloc_body"
    /\ \E size \in ReqSizes, align \in Aligns, root_ptr \in {0, OsBase}, place \in Places :
          Alloc(size, align, root_ptr, place)
    /\ pc' = [pc EXCEPT ![t] = "unlock"]
    /\ UNCHANGED mutex

\* The body of TLSFAllocator::dealloc: DynamicPool::dealloc under the guard.
TLSFAllocator_dealloc_body(t) ==
    /\ pc[t] = "dealloc_body"
    /\ \E ptr \in DOMAIN live : Free(ptr)
    /\ pc' = [pc EXCEPT ![t] = "unlock"]
    /\ UNCHANGED mutex

\* A guard whose drop leaves the lock taken.
MutexGuard_drop_KeepsLock(t) ==
    /\ ~panic
    /\ pc[t] = "unlock"
    /\ pc' = [pc EXCEPT ![t] = "idle"]
    /\ UNCHANGED <<mutex, PoolVars>>

\* The MutexGuard is dropped at the end of the statement: the lock is
\* released and the call returns.
MutexGuard_drop(t) ==
    /\ ~panic
    /\ pc[t] = "unlock"
    /\ mutex' = FALSE
    /\ pc' = [pc EXCEPT ![t] = "idle"]
    /\ UNCHANGED PoolVars

ThreadNext ==
    \E t \in Threads :
        \/ TLSFAllocator_alloc_enter(t)
        \/ TLSFAllocator_dealloc_enter(t)
        \/ Mutex_lock(t)
        \/ TLSFAllocator_alloc_body(t)
        \/ TLSFAllocator_dealloc_body(t)
        \/ MutexGuard_drop(t)

ThreadSpec == Init /\ [][ThreadNext]_vars

\* The guards of the two bodies hold for every thread that is in one: the
\* body is enabled exactly while the thread is in it.
BodyCanRun ==
    \A t \in Threads :
        /\ pc[t] = "alloc_body" =>
              /\ ~panic
              /\ Cardinality(DOMAIN live) < MaxLive
              /\ alloc_calls < MaxAllocCalls
        /\ pc[t] = "dealloc_body" => (~panic /\ DOMAIN live # {})

\* The scheduler lets a thread that is in the body or at the drop of its
\* guard run, and a spinning thread is not passed over for ever while the
\* lock keeps becoming free.  Weak fairness of the two body steps is
\* written as "the thread is not in the body for ever", which is the same
\* because a body is enabled exactly while its thread is in it.
FairThreadSpec ==
    /\ ThreadSpec
    /\ \A t \in Threads :
          /\ []<>(pc[t] \notin {"alloc_body", "dealloc_body"})
          /\ WF_vars(MutexGuard_drop(t))
          /\ SF_vars(Mutex_lock(t))

\* --------------------------------------------- the chunk table on its own
\* The loop of DynamicPool::alloc (lines 240-299) over the chunk table alone.
\* The 32 chunks of a full table take more bytes than the integers of the
\* model hold (every chunk is at least twice the one before), so here the
\* contents of the pool are left out: whether root_pool.alloc finds a block
\* on the first and on the second attempt (fits) and whether the OS supplies
\* the chunk (granted) are inputs, and a chunk is kept as its slot number.
\* The result is the new length of the table, the pointer returned (0 for
\* null, OsBase for any block of the pool), whether the OS was asked, and
\* whether ArrayVec::push found the table full and panicked.
RECURSIVE DynamicPool_alloc_loop(_, _, _, _)
DynamicPool_alloc_loop(len, fits, granted, new_pool_created) ==
    LET Break(buffer, asked, panicked) ==
            [len |-> len, ret |-> buffer, asked_aux |-> asked,
             grew |-> new_pool_created, panic |-> panicked]
    IN  IF Head(fits) THEN Break(OsBase, FALSE, FALSE)
        ELSE IF new_pool_created THEN Break(0, FALSE, FALSE)
        ELSE IF TableFull(len) THEN Break(0, FALSE, FALSE)
        ELSE IF ~granted THEN Break(0, TRUE, FALSE)
        ELSE IF len >= ChunkCapacity THEN Break(0, TRUE, TRUE)
        ELSE [DynamicPool_alloc_loop(len + 1, Tail(fits), granted, TRUE)
                 EXCEPT !.asked_aux = TRUE]

\* What root_pool.alloc finds on the first and on the second attempt.
Fits == {<<a, b>> : a, b \in BOOLEAN}

\* TLSFAllocator::alloc, seen from the chunk table.
TableAlloc(fits, granted) ==
    /\ ~panic
    /\ additional_chunks' =
          [i \in 1..DynamicPool_alloc_loop(Len(additional_chunks), fits, granted, FALSE).len |-> i]
    /\ ret' = IF DynamicPool_alloc_loop(Len(additional_chunks), fits, granted, FALSE).panic
              THEN None
              ELSE DynamicPool_alloc_loop(Len(additional_chunks), fits, granted, FALSE).ret
    /\ asked_aux' = DynamicPool_alloc_loop(Len(additional_chunks), fits, granted, FALSE).asked_aux
    /\ panic' = DynamicPool_alloc_loop(Len(additional_chunks), fits, granted, FALSE).panic
    /\ last' = IF DynamicPool_alloc_loop(Len(additional_chunks), fits, granted, FALSE).grew
               THEN "grow" ELSE "alloc"
    /\ UNCHANGED <<mem, fl_bitmap, sl_bitmap, areainfo_ptr, freed_block_map,
                   maximum_memory_size, used_memory_size, root_pool, live,
                   root_init, alloc_calls, layout_align, pc, mutex, fn_in, fn_out>>

TableNext == \E fits \in Fits, granted \in BOOLEAN : TableAlloc(fits, granted)

TableSpec == Init /\ [][TableNext]_vars

\* ------------------------------------------------ the retry loop in steps
\* DynamicPool::alloc followed statement by statement: the call is entered
\* (lines 227-239), root_pool.alloc is tried (lines 241-245), on a miss a
\* chunk is obtained and added (lines 247-291), and the call returns (lines
\* 294-299).  fn_in holds the layout the call was entered with and fn_out
\* where the call stands: the position in the loop, new_pool_created, the
\* buffer the loop broke with, and two counts taken since the call was
\* entered: the calls of root_pool.alloc and the chunks the OS supplied.
LoopIdle ==
    [at |-> "idle", new_pool_created |-> FALSE, tries |-> 0, os_chunks |-> 0, buffer |-> 0]

LoopSizes == {24, 1500000}

LoopInit == NewPool /\ fn_in = NoCall /\ fn_out = LoopIdle

\* Lines 227-239 of DynamicPool::alloc: the root pool is made when there is
\* none, and the loop is entered with new_pool_created = false.
Loop_enter(size, align, root_ptr) ==
    /\ ~panic
    /\ fn_out.at \in {"idle", "returned"}
    /\ Cardinality(DOMAIN live) < MaxLive
    /\ alloc_calls < MaxLoopCalls
    /\ root_pool.ptr # 0 => root_ptr = OsBase
    /\ \E d1 \in {IF root_pool.ptr # 0 THEN Pool
                  ELSE IF root_ptr = 0 THEN [Pool EXCEPT !.h = Panic(@)]
                  ELSE [Pool EXCEPT
                          !.h = RootPool_from(root_ptr,
                                   next_chunk_size(0, 0, pad_to_align_size(size, align))),
                          !.root_pool =
                             [ptr |-> root_ptr,
                              size |-> next_chunk_size(0, 0, pad_to_align_size(size, align))]]} :
          /\ SetPool(d1)
          /\ root_init' = IF root_pool.ptr = 0 /\ root_ptr # 0 THEN HeaderOf(d1.h)
                          ELSE root_init
    /\ fn_in' = [f |-> "DynamicPool::alloc", size |-> size, align |-> align]
    /\ fn_out' = [LoopIdle EXCEPT !.at = "try",
                                  !.os_chunks = IF root_pool.ptr = 0 /\ root_ptr # 0
                                                THEN 1 ELSE 0]
    /\ alloc_calls' = alloc_calls + 1
    /\ layout_align' = align
    /\ ret' = None
    /\ asked_aux' = FALSE
    /\ UNCHANGED <<live, last, pc, mutex>>

\* A loop that tries again after a miss instead of asking for a chunk.
Loop_after_try_TriesAgain(buffer_ptr, new_pool_created) ==
    IF buffer_ptr # 0 THEN "return"
    ELSE IF new_pool_created THEN "return"
    ELSE "try"

\* Lines 242-250 of DynamicPool::alloc: where the loop goes after
\* root_pool.alloc returned buffer_ptr.
Loop_after_try(buffer_ptr, new_pool_created) ==
    IF buffer_ptr # 0 THEN "return"
    ELSE IF new_pool_created THEN "return"
    ELSE "grow"

\* Lines 241-250 of DynamicPool::alloc: one attempt.
Loop_try ==
    /\ ~panic
    /\ fn_out.at = "try"
    /\ \E r \in {RootPool_alloc(Heap, fn_in.size)} :
          /\ SetPool([Pool EXCEPT !.h = r.h])
          /\ fn_out' = [fn_out EXCEPT
                          !.tries = @ + 1,
                          !.buffer = r.ret,
                          !.at = Loop_after_try(r.ret, fn_out.new_pool_created)]
    /\ UNCHANGED <<fn_in, live, root_init, last, alloc_calls, ret, asked_aux,
                   layout_align, pc, mutex>>

\* Lines 286-291 of DynamicPool::alloc: the chunk is pushed, added to the
\* pool, and the block add_new_chunk returned is freed.
Loop_chunk_added(d, chunks2, ac) ==
    IF ac.h.panic \/ ac.ret = 0
    THEN [d |-> [d EXCEPT !.h = Panic(ac.h), !.additional_chunks = chunks2],
          asked |-> TRUE, granted |-> TRUE, grew |-> FALSE]
    ELSE [d |-> [d EXCEPT !.h = RootPool_dealloc(ac.h, ac.ret),
                          !.additional_chunks = chunks2],
          asked |-> TRUE, granted |-> TRUE, grew |-> TRUE]

\* Lines 252-291 of DynamicPool::alloc: the part of the loop body behind a
\* miss.  grew is the value new_pool_created has after it.
Loop_chunk(d, size, place) ==
    LET len == Len(d.additional_chunks)
        last_chunk_size == IF len = 0 THEN d.h.maximum_memory_size
                           ELSE d.additional_chunks[len].size
        new_chunk_size == next_chunk_size(d.h.maximum_memory_size, last_chunk_size,
                                          calculate_allocation_size(size))
        aux_ptr == OsAnswer(place, d, new_chunk_size)
        ip == TLSFChunk_new(d.h.mem, aux_ptr, new_chunk_size)
        Break(asked, panicked) ==
            [d |-> IF panicked THEN [d EXCEPT !.h = Panic(@)] ELSE d,
             asked |-> asked, granted |-> panicked, grew |-> FALSE]
    IN  IF TableFull(len) THEN Break(FALSE, FALSE)
        ELSE IF aux_ptr = 0 THEN Break(TRUE, FALSE)
        ELSE IF ~ip.ok THEN Break(TRUE, TRUE)
        ELSE Loop_chunk_added(d,
                 Append(d.additional_chunks, [ptr |-> aux_ptr, size |-> new_chunk_size]),
                 add_new_chunk([d.h EXCEPT !.mem = ip.mem], aux_ptr))

\* Lines 252-291 of DynamicPool::alloc, with the OS's answer to the request
\* for the chunk.
Loop_grow(place) ==
    /\ ~panic
    /\ fn_out.at = "grow"
    /\ \E g \in {Loop_chunk(Pool, fn_in.size, place)} :
          /\ SetPool(g.d)
          /\ fn_out' = [fn_out EXCEPT
                          !.at = IF g.grew THEN "try" ELSE "return",
                          !.new_pool_created = g.grew,
                          !.os_chunks = @ + (IF g.granted THEN 1 ELSE 0),
                          !.buffer = 0]
          /\ asked_aux' = g.asked
    /\ UNCHANGED <<fn_in, live, root_init, last, alloc_calls, ret, layout_align,
                   pc, mutex>>

\* Lines 294-299 of DynamicPool::alloc: the buffer the loop broke with is
\* returned, null for None.
Loop_return ==
    /\ ~panic
    /\ fn_out.at = "return"
    /\ fn_out' = [fn_out EXCEPT !.at = "returned"]
    /\ ret' = fn_out.buffer
    /\ live' = IF fn_out.buffer # 0
               THEN [x \in (DOMAIN live) \cup {fn_out.buffer} |->
                        IF x = fn_out.buffer THEN fn_in.size ELSE live[x]]
               ELSE live
    /\ last' = IF fn_out.new_pool_created THEN "grow" ELSE "alloc"
    /\ UNCHANGED <<fn_in, mem, fl_bitmap, sl_bitmap, areainfo_ptr, freed_block_map,
                   maximum_memory_size, used_memory_size, panic, root_pool,
                   additional_chunks, root_init, alloc_calls, asked_aux,
                   layout_align, pc, mutex>>

\* TLSFAllocator::dealloc between two calls of alloc (the mutex keeps it out
\* of a running one).
Loop_free(ptr) ==
    /\ fn_out.at \in {"idle", "returned"}
    /\ Free(ptr)
    /\ UNCHANGED <<pc, mutex>>

LoopNext ==
    \/ \E size \in LoopSizes, align \in Aligns, root_ptr \in {0, OsBase} :
          Loop_enter(size, align, root_ptr)
    \/ Loop_try
    \/ \E place \in Places : Loop_grow(place)
    \/ Loop_return
    \/ \E ptr \in DOMAIN live : Loop_free(ptr)

LoopSpec == LoopInit /\ [][LoopNext]_vars

\* The statements of one call follow each other without waiting (the mutex
\* is held from the entry to the return): root_pool.alloc comes back, the
\* OS answers and the chunk is added, the return is taken.  Weak fairness of
\* Loop_try and of Loop_grow is written as "the call does not stand at that
\* statement for ever", which is the same because each is enabled exactly
\* while the call stands at its statement and the process has not aborted,
\* and each leaves its statement.  Neither condition says anything about
\* how often the loop goes round.
FairLoopSpec ==
    /\ LoopSpec
    /\ []<>(panic \/ fn_out.at # "try")
    /\ []<>(panic \/ fn_out.at # "grow")
    /\ WF_vars(Loop_return)

\* ------------------------------------------- a client that frees twice
\* The same allocator with a client that keeps the pointers it has freed:
\* here live[p] is 0 for a pointer that was freed and has not been returned
\* by alloc since (a later alloc that returns p makes it an allocation
\* again), and the client may pass such a pointer to dealloc once more.  A
\* run is followed up to the first such call.
\* What the client and the history keep of a dealloc: the client still
\* holds the pointer.
DeallocReturns(d, ptr, call) ==
    /\ SetPool(d)
    /\ live' = [live EXCEPT ![ptr] = 0]
    /\ root_init' = root_init
    /\ last' = call
    /\ alloc_calls' = alloc_calls
    /\ ret' = None
    /\ asked_aux' = FALSE
    /\ layout_align' = 0
    /\ UNCHANGED <<fn_in, fn_out, pc, mutex>>

\* TLSFAllocator::dealloc of an allocation.
Dealloc_held(ptr) ==
    /\ ~panic
    /\ last # "free again"
    /\ live[ptr] # 0
    /\ DeallocReturns(DynamicPool_dealloc(Pool, ptr), ptr, "free")

\* TLSFAllocator::dealloc of a pointer that was freed before.  The header in
\* front of the pointer is still the header of a block of the pool (the
\* bytes of a header that was coalesced away are not kept).
Dealloc_again(ptr) ==
    /\ ~panic
    /\ last # "free again"
    /\ live[ptr] = 0
    /\ (ptr - BlockHeader_get_aligned_size) \in AllBlocks(Heap)
    /\ DeallocReturns(DynamicPool_dealloc(Pool, ptr), ptr, "free again")

TwiceNext ==
    \/ \E size \in ReqSizes, align \in Aligns, root_ptr \in {0, OsBase}, place \in Places :
          last # "free again" /\ Alloc(size, align, root_ptr, place) /\ UNCHANGED <<pc, mutex>>
    \/ \E ptr \in DOMAIN live : Dealloc_held(ptr)
    \/ \E ptr \in DOMAIN live : Dealloc_again(ptr)

TwiceSpec == Init /\ [][TwiceNext]_vars

\* ============================================================ properties
\* Views of the current state used by the properties below.
StartSentinels(h) == {a - BlockHeader_get_aligned_size : a \in Range(Areas(h))}

EndSentinels(h) == {end_block_header(h.mem, a) : a \in Range(Areas(h))}

NonSentinelBlocks(h) == AllBlocks(h) \ (StartSentinels(h) \cup EndSentinels(h))

\* How often the value x occurs in the sequence f.
Occurrences(f, x) == Cardinality({i \in DOMAIN f : f[i] = x})

RECURSIVE SumOver(_, _, _)
SumOver(S, m, fuel) ==
    IF S = {} \/ fuel = 0 THEN 0
    ELSE LET b == CHOOSE x \in S : TRUE
         IN  buffer_size_with_header(m, b) + SumOver(S \ {b}, m, fuel - 1)

\* Sum of header + buffer over a set of blocks.
BytesOf(S, m) == SumOver(S, m, Cardinality(S))

\* ---- C1
\* C1: every pointer returned by alloc and not yet freed is the buffer start
\* of exactly one block of the pool; that block is not FREE and its buffer is
\* at least as large as the request; the buffers of two live allocations do
\* not overlap, and no live buffer overlaps a block header.
LiveBlock(p) == p - BlockHeader_get_aligned_size

C1_LiveBuffersDisjoint ==
    /\ WalksComplete(Heap)
    /\ \A p \in DOMAIN live :
          /\ LiveBlock(p) \in NonSentinelBlocks(Heap)
          /\ ~is_freed(mem, LiveBlock(p))
          /\ buffer_size(mem, LiveBlock(p)) >= live[p]
          /\ \A q \in DOMAIN live :
                q # p => (q >= p + buffer_size(mem, LiveBlock(p))
                            \/ p >= q + buffer_size(mem, LiveBlock(q)))
          /\ \A b \in AllBlocks(Heap) :
                b + BlockHeader_get_aligned_size <= p
                  \/ b >= p + buffer_size(mem, LiveBlock(p))

C1_Witness ==
    /\ Cardinality(DOMAIN live) >= 2
    /\ last = "alloc"
    /\ \E p \in DOMAIN live : buffer_size(mem, LiveBlock(p)) > live[p]

\* ---- C2
\* C2: used_memory_size is the sum of header + buffer over the non-free
\* non-sentinel blocks, maximum_memory_size the same sum over all
\* non-sentinel blocks, and used_memory_size <= maximum_memory_size.
C2_UsageCounters ==
    /\ used_memory_size =
          BytesOf({b \in NonSentinelBlocks(Heap) : ~is_freed(mem, b)}, mem)
    /\ maximum_memory_size = BytesOf(NonSentinelBlocks(Heap), mem)
    /\ used_memory_size <= maximum_memory_size

C2_Witness ==
    /\ Len(additional_chunks) >= 1
    /\ Cardinality(DOMAIN live) >= 2
    /\ used_memory_size > 0
    /\ used_memory_size < maximum_memory_size

\* ---- C3
\* C3: for every class (fl, sl) the head pointer is non-null exactly when
\* bit sl of sl_bitmap[fl] is set, and sl_bitmap[fl] is non-zero exactly when
\* bit fl of fl_bitmap is set.
C3_BitmapsMatchHeads ==
    /\ DOMAIN freed_block_map \subseteq 0..(TOTAL_COUNT - 1)
    /\ \A fl \in 0..(FIRST_INDEX_REAL - 1) :
          /\ \A sl \in 0..(SECOND_INDEX_MAX - 1) :
                (get_item(freed_block_map, calculate_index(<<fl, sl>>)) # 0)
                   <=> (sl \in sl_bitmap[fl])
          /\ (sl_bitmap[fl] # {}) <=> (fl \in fl_bitmap)
    /\ fl_bitmap \subseteq 0..(FIRST_INDEX_REAL - 1)

\* Two classes of one row are non-empty and a block was just extracted.
C3_Witness ==
    /\ last = "alloc"
    /\ \E fl \in fl_bitmap : Cardinality(sl_bitmap[fl]) >= 2
    /\ Cardinality(fl_bitmap) >= 2

\* ---- C4
\* The blocks of the class list with the given index, from the head.
RECURSIVE FreeListFrom(_, _, _)
FreeListFrom(m, b, fuel) ==
    IF b = 0 \/ fuel = 0 THEN <<>>
    ELSE <<b>> \o FreeListFrom(m, free_next(m, b), fuel - 1)

ClassList(h, index) == FreeListFrom(h.mem, get_item(h.freed_block_map, index), WalkFuel)

\* How often block b is listed, over all class lists.
TimesListed(h, b) ==
    LET S == {i \in DOMAIN h.freed_block_map : Occurrences(ClassList(h, i), b) > 0}
    IN  IF S = {} THEN 0
        ELSE IF Cardinality(S) > 1 THEN 2
        ELSE Occurrences(ClassList(h, CHOOSE i \in S : TRUE), b)

\* C4: every FREE block is listed exactly once, in the list of the class
\* calculate_mapping_indices gives for its buffer size, and every listed
\* block is a FREE block of the pool.
C4_FreeBlocksListedOnce ==
    /\ \A b \in AllBlocks(Heap) :
          is_freed(mem, b) =>
             /\ TimesListed(Heap, b) = 1
             /\ Occurrences(ClassList(Heap,
                   calculate_index(calculate_mapping_indices(buffer_size(mem, b)))), b) = 1
    /\ \A i \in DOMAIN freed_block_map :
          \A x \in Range(ClassList(Heap, i)) : x \in AllBlocks(Heap) /\ is_freed(mem, x)

\* Several free blocks are listed, two of them in the same class.
C4_Witness ==
    /\ last = "free"
    /\ \E i \in DOMAIN freed_block_map : Len(ClassList(Heap, i)) >= 2
    /\ Cardinality(DOMAIN freed_block_map) >= 2

\* ---- C5
\* The bytes of a chunk that hold blocks: all of an additional chunk, the
\* root chunk without the TLSFRawHeader in front.
UsableStart(c) ==
    IF c = root_pool THEN c.ptr + TLSFRawHeader_get_aligned_size ELSE c.ptr

UsableSize(c) == (c.ptr + round_down_block(c.size)) - UsableStart(c)

RECURSIVE SumUsable(_)
SumUsable(S) ==
    IF S = {} THEN 0
    ELSE LET c == CHOOSE x \in S : TRUE IN UsableSize(c) + SumUsable(S \ {c})

\* The chunks whose blocks lie in the area: those that start inside it.
ChunksOfArea(a) ==
    LET start == a - BlockHeader_get_aligned_size
        end   == end_block_header(mem, a)
    IN  {c \in Regions(Pool) : start <= UsableStart(c) /\ UsableStart(c) <= end}

\* C5: the walk from every area's start sentinel visits blocks whose sizes
\* are multiples of BLOCK_ALIGNOF, ends at the area's end block, and the
\* visited header + buffer bytes add up to the usable size of the area's
\* chunk(s); every chunk belongs to exactly one area.
C5_AreaWalk ==
    /\ WalksComplete(Heap)
    /\ \A a \in Range(Areas(Heap)) :
          LET bs == AreaBlocks(mem, a)
          IN  /\ \A i \in DOMAIN bs :
                    /\ buffer_size(mem, bs[i]) % BLOCK_ALIGNOF = 0
                    /\ bs[i] % BLOCK_ALIGNOF = 0
              /\ \E c \in ChunksOfArea(a) : UsableStart(c) = bs[1]
              /\ BytesOf(Range(bs), mem) = SumUsable(ChunksOfArea(a))
    /\ \A c \in Regions(Pool) :
          Cardinality({a \in Range(Areas(Heap)) : c \in ChunksOfArea(a)}) = 1

\* Two areas, one of them split into several blocks.
C5_Witness ==
    /\ Len(Areas(Heap)) = 2
    /\ \E a \in Range(Areas(Heap)) : Len(AreaBlocks(mem, a)) >= 5

\* ---- C6
\* C6: no two physically adjacent blocks are both FREE.
C6_NoAdjacentFree ==
    \A a \in Range(Areas(Heap)) :
       LET bs == AreaBlocks(mem, a)
       IN  \A i \in 1..(Len(bs) - 1) : ~(is_freed(mem, bs[i]) /\ is_freed(mem, bs[i + 1]))

\* A free has just left a free block between two allocated ones.
C6_Witness ==
    /\ last = "free"
    /\ Cardinality(DOMAIN live) >= 2
    /\ \E b \in AllBlocks(Heap) : is_freed(mem, b)
    /\ alloc_calls >= 3

\* ---- C7
\* C7: PREV_FREE is set on a block exactly when it has a physical
\* predecessor that is FREE, and then previous_header points to it; no free
\* aborts.
C7_PrevFreeFlag ==
    /\ panic => last # "free"
    /\ \A a \in Range(Areas(Heap)) :
          LET bs == AreaBlocks(mem, a)
          IN  \A i \in DOMAIN bs :
                 /\ is_prev_freed(mem, bs[i]) <=> (i > 1 /\ is_freed(mem, bs[i - 1]))
                 /\ is_prev_freed(mem, bs[i]) =>
                       (previous_block_ptr(mem, bs[i]) # 0
                          /\ previous_block_ptr(mem, bs[i]) = bs[i - 1])

\* An allocated block has a free predecessor and an allocated successor.
C7_Witness ==
    \E a \in Range(Areas(Heap)) :
       LET bs == AreaBlocks(mem, a)
       IN  \E i \in 2..(Len(bs) - 1) :
              /\ is_prev_freed(mem, bs[i])
              /\ bs[i] + BlockHeader_get_aligned_size \in DOMAIN live
              /\ ~is_prev_freed(mem, bs[i + 1])

\* ---- C8
\* C8: a non-null previous_header of a block points to the block that ends
\* where this block starts.
C8_PrevHeaderAdjacent ==
    \A b \in AllBlocks(Heap) :
       previous_block_ptr(mem, b) # 0 =>
          /\ previous_block_ptr(mem, b) \in AllBlocks(Heap)
          /\ next_block_ptr(mem, previous_block_ptr(mem, b)) = b

\* After a split and a coalesce: a block behind a live allocation points
\* back at it, in a pool that has grown.
C8_Witness ==
    /\ Len(additional_chunks) >= 1
    /\ \E b \in NonSentinelBlocks(Heap) :
          /\ previous_block_ptr(mem, b) # 0
          /\ previous_block_ptr(mem, b) + BlockHeader_get_aligned_size \in DOMAIN live
          /\ is_freed(mem, b)

\* ---- C9
\* The free-list index: the bitmaps, the head pointers and every class list.
IndexOf(h) ==
    [fl_bitmap |-> h.fl_bitmap, sl_bitmap |-> h.sl_bitmap,
     freed_block_map |-> h.freed_block_map,
     lists |-> [i \in DOMAIN h.freed_block_map |-> ClassList(h, i)]]

\* The answers of the OS that matter to an alloc(size) in the current state.
PlacesFor(size) ==
    IF root_pool.ptr # 0 /\ Misses(size) THEN Places ELSE {<<"refuse", 0>>}

\* C9: alloc(n) = p, free(p), alloc(n) returns p again; and when the first
\* alloc obtained no chunk, the index after the free is the index before
\* the alloc.
C9_AllocFreeAlloc ==
    ~panic =>
      \A n \in ReqSizes : \A align \in Aligns : \A place \in PlacesFor(n) :
         LET r1 == DynamicPool_alloc(Pool, n, align, OsBase, place)
             d2 == DynamicPool_dealloc(r1.d, r1.ret)
             r3 == DynamicPool_alloc(d2, n, align, OsBase, <<"refuse", 0>>)
         IN  r1.ret # 0 =>
               /\ ~d2.h.panic
               /\ r3.ret = r1.ret
               /\ (~r1.grew /\ ~r1.made_root) => IndexOf(d2.h) = IndexOf(Heap)

\* The last alloc returned a pointer that a free followed by the same alloc
\* returns again, in a pool whose index holds several classes.
C9_Witness ==
    /\ last = "alloc"
    /\ Cardinality(DOMAIN freed_block_map) >= 2
    /\ \E p \in DOMAIN live : \E align \in Aligns :
          LET d2 == DynamicPool_dealloc(Pool, p)
          IN  /\ DynamicPool_alloc(d2, live[p], align, OsBase, <<"refuse", 0>>).ret = p
              /\ \E i \in DOMAIN d2.h.freed_block_map : Len(ClassList(d2.h, i)) >= 2

\* ---- C10
\* Every area is a start sentinel, one FREE block and an end sentinel.
AllFreedShape(h) ==
    /\ h.used_memory_size = 0
    /\ Areas(h) # <<>>
    /\ \A a \in Range(Areas(h)) :
          LET bs == AreaBlocks(h.mem, a)
          IN  /\ Len(bs) = 3
              /\ bs[3] = end_block_header(h.mem, a)
              /\ ~is_freed(h.mem, bs[1])
              /\ is_freed(h.mem, bs[2])
              /\ ~is_freed(h.mem, bs[3])

\* The pool right after RootPool::from for a first request of the given size.
FreshRoot(size, align) ==
    RootPool_from(OsBase, next_chunk_size(0, 0, pad_to_align_size(size, align)))

\* C10: right after the root pool is created, and whenever no allocation is
\* live, used_memory_size is 0 and every area is one FREE block between its
\* sentinels; with the root chunk alone, exactly one head pointer is
\* non-null and the header is the one RootPool::from left.
C10_AllFreedIsInitial ==
    /\ \A n \in ReqSizes : \A align \in Aligns :
          /\ AllFreedShape(FreshRoot(n, align))
          /\ Cardinality(DOMAIN FreshRoot(n, align).freed_block_map) = 1
    /\ (~panic /\ root_pool.ptr # 0 /\ DOMAIN live = {}) =>
          /\ AllFreedShape(Heap)
          /\ additional_chunks = <<>> =>
                /\ Cardinality(DOMAIN freed_block_map) = 1
                /\ HeaderOf(Heap) = root_init

\* Three or more allocations were made and the last of them has been freed.
C10_Witness ==
    /\ last = "free"
    /\ DOMAIN live = {}
    /\ alloc_calls >= 3
    /\ additional_chunks = <<>>
    /\ root_pool.ptr # 0

\* The OS refused a chunk it was asked for in the last alloc call: the root
\* chunk (the call aborted with no root pool) or an additional chunk (the
\* call asked for one and none was added).
OsRefused ==
    \/ panic /\ root_pool.ptr = 0
    \/ ~panic /\ asked_aux /\ last # "grow"

\* The number of additional chunks on entry to the last alloc call.
ChunksOnEntry == Len(additional_chunks) - (IF last = "grow" THEN 1 ELSE 0)

C11_Returned ==
    (last \in {"alloc", "grow"} /\ ~OsRefused /\ ChunksOnEntry < ChunkCapacity) =>
        /\ ~panic
        /\ ret \in DOMAIN live
        /\ ret # 0
        /\ buffer_size(mem, LiveBlock(ret))
              >= calculate_allocation_searching_size(live[ret])
        /\ asked_aux = (last = "grow")

C11_OneChunk ==
    /\ Len(additional_chunks') <= Len(additional_chunks) + 1
    /\ Len(additional_chunks') > Len(additional_chunks) => ret' # 0

C12_RefusedReturnsNull ==
    (last \in {"alloc", "grow"} /\ OsRefused) => (~panic /\ ret = 0)

\* A step in which alloc returns null leaves the TLSFRawHeader, the area
\* list, the memory of the pool and both chunk tables as they were.
C13_NullStep ==
    (alloc_calls' # alloc_calls /\ ret' = 0) =>
        /\ HeaderOf(Heap)' = HeaderOf(Heap)
        /\ Areas(Heap)' = Areas(Heap)
        /\ mem' = mem
        /\ additional_chunks' = additional_chunks
        /\ root_pool' = root_pool
        /\ live' = live

\* C13: whenever alloc returns null, fl_bitmap, sl_bitmap, the head
\* pointers, the area list, maximum_memory_size, used_memory_size and the
\* additional chunks are exactly as they were on entry to the call.
C13_NullLeavesPoolUntouched == [][C13_NullStep]_vars

\* The last alloc found no block, asked the OS for a chunk, was refused and
\* returned null while allocations were live.
C13_Witness ==
    /\ last = "alloc"
    /\ ret = 0
    /\ asked_aux
    /\ ~panic
    /\ DOMAIN live # {}

\* With a full table, an alloc whose first attempt finds no block returns
\* null, asks the OS for nothing and leaves the table as it is.
C14_FullTableStep ==
    \A fits \in Fits, granted \in BOOLEAN :
        (/\ TableAlloc(fits, granted)
         /\ Len(additional_chunks) = ChunkCapacity
         /\ ~Head(fits)) =>
            /\ ret' = 0
            /\ ~asked_aux'
            /\ additional_chunks' = additional_chunks

\* C14: the number of additional chunks never exceeds 32 (and the push
\* into the table never finds it full); with 32 additional chunks, an alloc
\* that finds no fitting block returns null without asking the OS.
C14_ChunkTableBounded ==
    /\ [](Len(additional_chunks) <= ChunkCapacity /\ ~panic)
    /\ [][C14_FullTableStep]_vars

\* The table is full and the last alloc returned null without asking the OS.
C14_Witness ==
    /\ Len(additional_chunks) = ChunkCapacity
    /\ last = "alloc"
    /\ ret = 0
    /\ ~asked_aux

\* C15: an alloc whose layout asks for an alignment above BLOCK_ALIGNOF
\* aborts or returns null; it never returns a pointer that is not a multiple
\* of the alignment asked for.
C15_OverAlignedNeverMisaligned ==
    (last \in {"alloc", "grow"} /\ layout_align > BLOCK_ALIGNOF) =>
        \/ panic
        \/ ret = 0
        \/ ret % layout_align = 0

\* C16: every block header address, every stored size without its two flag
\* bits, every buffer_size and every pointer alloc returned is a multiple of
\* BLOCK_ALIGNOF, and no assert!(is_aligned(..)) has failed: the only abort is
\* the one of a refused root chunk.
C16_EverythingAligned ==
    /\ panic => root_pool.ptr = 0
    /\ ~panic =>
          /\ \A b \in AllBlocks(Heap) :
                /\ is_aligned(b)
                /\ is_aligned(buffer_size(mem, b))
                /\ stored_size(mem, b) - buffer_size(mem, b)
                      < 2 * PREV_FREED_MASK
                /\ is_aligned(buffer_pointer_as(b))
          /\ \A p \in DOMAIN live : is_aligned(p)
          /\ ret > 0 => is_aligned(ret)

\* Allocations, a growth of the pool and a free have all gone through
\* set_buffer_size, and blocks are still live.
C16_Witness ==
    /\ ~panic
    /\ last = "free"
    /\ Len(additional_chunks) > 0
    /\ Cardinality(DOMAIN live) >= 2
    /\ \E b \in NonSentinelBlocks(Heap) : is_freed(mem, b)

\* The threads inside the body of DynamicPool: past the lock, guard alive.
InBody == {t \in Threads : pc[t] \in {"alloc_body", "dealloc_body", "unlock"}}

\* At most one thread is inside the body, and the lock is taken exactly
\* while one is.
C17_OneInside ==
    /\ Cardinality(InBody) <= 1
    /\ mutex = (InBody # {})

\* A step that changes anything of the pool or of what the clients hold is
\* one complete alloc or one complete dealloc of the sequential allocator,
\* made by the thread that holds the lock.
C17_CompleteOperation ==
    (PoolVars' # PoolVars) =>
        /\ mutex
        /\ \E t \in InBody : pc[t] # "unlock" /\ pc'[t] = "unlock"
        /\ \/ \E size \in ReqSizes, align \in Aligns, root_ptr \in {0, OsBase},
                 place \in Places : Alloc(size, align, root_ptr, place)
           \/ \E ptr \in DOMAIN live : Free(ptr)

\* C17: with several threads calling alloc and dealloc, at most one thread
\* is inside the body of the pool at any time, the lock being held from
\* before the body to after it, and the pool changes only by complete
\* alloc and dealloc operations, one after the other.
C17_MutexSerializes == [](C17_OneInside) /\ [][C17_CompleteOperation]_vars

\* One thread is inside the body with the pool grown by an earlier call,
\* while the other thread spins on the lock.
C17_Witness ==
    /\ \E t \in Threads : pc[t] \in {"alloc_body", "dealloc_body"}
    /\ \E t \in Threads : pc[t] \in {"alloc_lock", "dealloc_lock"}
    /\ mutex
    /\ Len(additional_chunks) > 0
    /\ DOMAIN live # {}

AreaStartOf(k) ==
    RegionOf(Pool, k).ptr + (IF k = 0 THEN TLSFRawHeader_get_aligned_size ELSE 0)

RegionEnd(k) == RegionOf(Pool, k).ptr + round_down_block(RegionOf(Pool, k).size)

\* The pairs (i, k) of an additional chunk i and a region k older than it.
GrownOnto == {ik \in (1..Len(additional_chunks)) \X (0..Len(additional_chunks)) :
                 ik[2] < ik[1]}

\* Chunk i was put right behind region k / right in front of the area of
\* region k.
ForwardNeighbors == {ik \in GrownOnto : RegionEnd(ik[2]) = AreaStartOf(ik[1])}

ReverseNeighbors == {ik \in GrownOnto : RegionEnd(ik[1]) = AreaStartOf(ik[2])}

\* Address x lies in the area whose AreaInfo is at a.
Covers(a, x) ==
    /\ a - BlockHeader_get_aligned_size <= x
    /\ x < buffer_pointer_as(end_block_header(mem, a))

\* One area holds the first and the last block header of both regions.
InOneArea(i, k) ==
    \E a \in Range(Areas(Heap)) :
        /\ Covers(a, AreaStartOf(i))
        /\ Covers(a, AreaStartOf(k))
        /\ Covers(a, RegionEnd(i) - BlockHeader_get_aligned_size)
        /\ Covers(a, RegionEnd(k) - BlockHeader_get_aligned_size)

\* C19: a chunk that starts where an older area's end block buffer ends is
\* in one area with it: one AreaInfo and one end block for both, no end
\* block left at the old end, no start block and no AreaInfo at the start
\* of the new chunk, and the old end block's bytes inside an ordinary
\* block of the merged area.
C19_ForwardNeighborsMerged ==
    ~panic =>
        \A ik \in ForwardNeighbors :
            /\ InOneArea(ik[1], ik[2])
            /\ (RegionEnd(ik[2]) - BlockHeader_get_aligned_size) \notin EndSentinels(Heap)
            /\ AreaStartOf(ik[1]) \notin StartSentinels(Heap)
            /\ buffer_pointer_as(AreaStartOf(ik[1])) \notin Range(Areas(Heap))
            /\ \E b \in NonSentinelBlocks(Heap) :
                   /\ b <= RegionEnd(ik[2]) - BlockHeader_get_aligned_size
                   /\ RegionEnd(ik[2]) - BlockHeader_get_aligned_size < next_block_ptr(mem, b)

\* A chunk was grown right behind an older one, and a live block returned by
\* a later alloc has its buffer across the old chunk boundary.
C19_Witness ==
    /\ ~panic
    /\ \E ik \in ForwardNeighbors : \E p \in DOMAIN live :
           /\ p < RegionEnd(ik[2])
           /\ RegionEnd(ik[2]) < p + live[p]
           /\ live[p] <= buffer_size(mem, LiveBlock(p))

\* C20: a chunk that ends where an older area starts is in one area with
\* it: the old area is unlinked, the old start block and its AreaInfo lie
\* inside the new chunk's first block, whose next block is the old first
\* block with that block's previous_header set to it, and the old end block
\* is the end block of the merged area.
C20_ReverseNeighborsMerged ==
    ~panic =>
        \A ik \in ReverseNeighbors :
            /\ InOneArea(ik[1], ik[2])
            /\ AreaStartOf(ik[2]) \notin StartSentinels(Heap)
            /\ buffer_pointer_as(AreaStartOf(ik[2])) \notin Range(Areas(Heap))

\* ---- C21
\* C21: whatever the order and the placement of the chunks the OS hands out,
\* once alloc has grown the pool (add_new_chunk and the free of its block
\* have returned) every area of the area list is walked from its start block
\* to its end block by next_block_ptr steps, no area is listed twice and no
\* block lies in two areas, every chunk lies in exactly one area, and the
\* free-list and block invariants hold: the bitmaps match the heads, every
\* FREE block is listed once and every listed block is a FREE block of the
\* pool, no two neighbours are FREE, and previous_header is the neighbour.
C21_GrownPoolWellFormed ==
    (last = "grow" /\ ~panic) =>
        /\ WalksComplete(Heap)
        /\ \A c \in Regions(Pool) :
              Cardinality({a \in Range(Areas(Heap)) : c \in ChunksOfArea(a)}) = 1
        /\ C3_BitmapsMatchHeads
        /\ \A i \in DOMAIN freed_block_map :
              \A x \in Range(ClassList(Heap, i)) : x \in AllBlocks(Heap) /\ is_freed(mem, x)
        /\ C6_NoAdjacentFree
        /\ C8_PrevHeaderAdjacent

\* ---- C22
\* Request sizes an alloc is tried with in every state reached.
ProbeSizes == {1, 24, 100, 200, 1000, 70000, 1500000, 1506000, 2000000}

\* The class find_suitable_indices returns for a request of n bytes.
FoundClass(n) == find_suitable_indices(Heap, calculate_allocation_searching_size(n))

\* C22: in every reachable state and for every request, when
\* find_suitable_indices returns a class, extract_root_block on that class
\* returns a block (not None), that block is FREE and its buffer_size is at
\* least the searching size of the request, so the assert of RootPool::alloc
\* holds and the alloc does not abort.
C22_PoppedBlockFits ==
    (~panic /\ root_pool.ptr # 0) =>
        \A n \in ProbeSizes :
            FoundClass(n) # <<>> =>
                /\ extract_root_block(Heap, FoundClass(n)).ret # 0
                /\ ~extract_root_block(Heap, FoundClass(n)).h.panic
                /\ buffer_size(mem, extract_root_block(Heap, FoundClass(n)).ret)
                      >= calculate_allocation_searching_size(n)
                /\ ~RootPool_alloc(Heap, n).h.panic
                /\ RootPool_alloc(Heap, n).ret # 0

\* The last alloc popped its block from a class above the class of its
\* request, while a smaller free block is listed in a lower class of the
\* same row as that of another request.
C22_Witness ==
    /\ ~panic
    /\ last = "alloc"
    /\ ret \in DOMAIN live
    /\ buffer_size(mem, LiveBlock(ret)) >= calculate_allocation_searching_size(live[ret])
    /\ \E n \in ProbeSizes :
          /\ FoundClass(n) # <<>>
          /\ FoundClass(n) # calculate_mapping_indices(calculate_allocation_searching_size(n))
          /\ \E sl \in sl_bitmap[calculate_mapping_indices(
                                     calculate_allocation_searching_size(n))[1]] :
                 sl < calculate_mapping_indices(calculate_allocation_searching_size(n))[2]

\* ------------------------------------------------------------------- C23
\* The lowest class of S at or above (first, second) in (fl, sl) order,
\* <<>> when there is none.
AtOrAbove(c, first, second) == c[1] > first \/ (c[1] = first /\ c[2] >= second)

LowestAtOrAbove(S, first, second) ==
    LET above == {c \in S : AtOrAbove(c, first, second)}
    IN  IF above = {} THEN <<>>
        ELSE CHOOSE c \in above : \A d \in above : AtOrAbove(d, c[1], c[2])

C24_ClassAtOrAboveFits ==
    fn_out.f = "calculate_allocation_searching_size" =>
        /\ AtOrAbove(fn_out.block_indices, fn_out.indices[1], fn_out.indices[2])
               => fn_in.block_size >= fn_out.searching_size
        /\ fn_out.searching_size >= fn_out.allocation_size
        /\ fn_out.allocation_size >= fn_in.req
        /\ calculate_mapping_indices(fn_out.searching_size - 1) # fn_out.indices
        /\ fn_out.searching_size % BLOCK_ALIGNOF = 0

\* The searching size lies above the allocation size, and the block is the
\* smallest of the class of the searching size.
C24_Witness ==
    /\ fn_out.f = "calculate_allocation_searching_size"
    /\ fn_out.searching_size > fn_out.allocation_size
    /\ fn_out.block_indices = fn_out.indices
    /\ fn_in.block_size = fn_out.searching_size

\* ------------------------------------------------------------------- C25
\* C25: in find_suitable_indices the mask applied to fl_bitmap for the first
\* index of the request keeps exactly the bits above that index; when the
\* first index plus one is 32 the mask is 0 and the search returns None.
C25_FirstMaskStrictlyAbove ==
    fn_out.f = "find_suitable_indices" =>
        /\ first_bitmask(fn_in.first) = {b \in 0..31 : b > fn_in.first}
        /\ fn_in.first + 1 = 32 => (~fn_out.panic /\ fn_out.found = <<>>)

\* ------------------------------------------------------------------- C28
\* C28: the size next_chunk_size aligns the request to is the smallest power
\* of two that is at least the request; a request that is a power of two is
\* aligned to itself.
C28_AlignedToSmallestPowerOfTwo ==
    fn_out.f = "next_chunk_size" =>
        /\ Cardinality(Bits(fn_out.aligned_size)) = 1
        /\ fn_out.aligned_size >= fn_in.size
        /\ fn_out.aligned_size \div 2 < fn_in.size

\* ------------------------------------------------------------------- C29
\* C29: for a pool that already has memory, next_chunk_size returns twice
\* the last chunk size when four times the aligned size is at most that, and
\* otherwise the smallest multiple of the last chunk size that is at least
\* four times the aligned size; the last chunk size is the root pool's
\* maximum_memory_size while there is no additional chunk.
C29_DoubleOrMultipleOfLast ==
    (fn_out.f = "next_chunk_size" /\ fn_in.total # 0) =>
        fn_out.chunk =
            IF 4 * fn_out.aligned_size <= 2 * fn_in.last_chunk_size
            THEN 2 * fn_in.last_chunk_size
            ELSE ((4 * fn_out.aligned_size + fn_in.last_chunk_size - 1)
                      \div fn_in.last_chunk_size) * fn_in.last_chunk_size

\* ------------------------------------------------------------------- C26
\* The block RootPool::alloc pops for a request of n bytes in this state.
Popped(n) == extract_root_block(Heap, FoundClass(n)).ret

\* RootPool::alloc splits the block it pops for a request of n bytes.
Splits(n) ==
    /\ ~panic
    /\ root_pool.ptr # 0
    /\ FoundClass(n) # <<>>
    /\ buffer_size(mem, Popped(n)) - calculate_allocation_searching_size(n) >= SplitThreshold

\* Every non-null previous_header of the blocks of the pool h points to the
\* block that ends where its holder starts.
PrevHeadersAdjacent(h, blocks) ==
    \A b \in blocks :
       previous_block_ptr(h.mem, b) # 0 =>
          /\ previous_block_ptr(h.mem, b) \in blocks
          /\ next_block_ptr(h.mem, previous_block_ptr(h.mem, b)) = b

\* The remainder header N of a split of block B at size s, in the pool
\* `after` the alloc; O is the block that followed B before the alloc, rem
\* the size left over and prev the previous_header N is required to hold.
RemainderWritten(after, B, s, O, rem, prev) ==
    LET N == buffer_pointer_as(B) + s
    IN  /\ ~after.panic
        /\ buffer_size(after.mem, B) = s
        /\ next_block_ptr(after.mem, B) = N
        /\ buffer_size(after.mem, N) = rem - BlockHeader_get_aligned_size
        /\ is_freed(after.mem, N)
        /\ ~is_prev_freed(after.mem, N)
        /\ previous_block_ptr(after.mem, N) = prev
        /\ next_block_ptr(after.mem, N) = O
        /\ previous_block_ptr(after.mem, O) = N
        /\ PrevHeadersAdjacent(after, AllBlocks(after))

ProbeSplit(n, B, s, prev) ==
    RemainderWritten(RootPool_alloc(Heap, n).h, B, s, next_block_ptr(mem, B),
                     buffer_size(mem, B) - s, prev)

\* The split of every request of ProbeSizes that splits in this state, with
\* the previous_header the remainder is required to hold (0 for None, or
\* the split block).
SplitsWrite(PrevOf(_)) ==
    LET Probe(n, B) ==
            ProbeSplit(n, B, calculate_allocation_searching_size(n), PrevOf(B))
    IN  \A n \in ProbeSizes : Splits(n) => Probe(n, Popped(n))

PrevIsNone(B) == 0

PrevIsSplitBlock(B) == B

\* C26 as amended: when RootPool::alloc splits a block B at the searching
\* size s, the remainder header N is written at B's buffer + s with FREE
\* set, PREV_FREE clear and previous_header None; B is shortened to s and
\* the block O that followed B gets previous_header = N; after the split
\* every non-null previous_header points to the physical predecessor.
C26_SplitWritesRemainder == SplitsWrite(PrevIsNone)

\* C26 as stated: the remainder header is written with previous_header = B,
\* so that after a split every block's previous_header is its predecessor.
C26_RemainderPointsBack == SplitsWrite(PrevIsSplitBlock)

\* The last alloc split a block: the block behind the returned one is free
\* and holds no previous_header, and the block behind that points at it.
C26_Witness ==
    /\ ~panic
    /\ last = "alloc"
    /\ ret \in DOMAIN live
    /\ \E n \in ProbeSizes : Splits(n)
    /\ LET N == next_block_ptr(mem, LiveBlock(ret))
       IN  /\ is_freed(mem, N)
           /\ ~is_prev_freed(mem, N)
           /\ previous_block_ptr(mem, N) = 0
           /\ buffer_size(mem, N) > 0
           /\ previous_block_ptr(mem, next_block_ptr(mem, N)) = N

\* ------------------------------------------------------------------- C27
\* The size left over when the block popped for n bytes is cut at the
\* searching size.
Remained(n) == buffer_size(mem, Popped(n)) - calculate_allocation_searching_size(n)

\* A request of n bytes finds a block in this state.
Pops(n) == ~panic /\ root_pool.ptr # 0 /\ FoundClass(n) # <<>>

\* The outcome of RootPool::alloc on block B of size0 bytes followed by O,
\* for searching size s: res is what the alloc returned.
WholeOrSplit(res, B, s, size0, O) ==
    LET rem == size0 - s
        N   == buffer_pointer_as(B) + s
    IN  /\ ~res.h.panic
        /\ res.ret = buffer_pointer_as(B)
        /\ ~is_freed(res.h.mem, B)
        /\ IF rem < BlockHeader_get_aligned_size + SizeOfFreeNode
           THEN /\ buffer_size(res.h.mem, B) = size0
                /\ next_block_ptr(res.h.mem, B) = O
                /\ ~is_prev_freed(res.h.mem, O)
           ELSE /\ buffer_size(res.h.mem, B) = s
                /\ next_block_ptr(res.h.mem, B) = N
                /\ buffer_size(res.h.mem, N) = rem - BlockHeader_get_aligned_size
                /\ buffer_size(res.h.mem, N) >= MINIMUM_BLOCK_SIZE
                /\ is_freed(res.h.mem, N)
                /\ get_item(res.h.freed_block_map,
                            calculate_index(calculate_mapping_indices(
                                rem - BlockHeader_get_aligned_size))) = N
                /\ next_block_ptr(res.h.mem, N) = O

\* C27: for the block B popped for a request, with s the searching size and
\* rem = B's buffer_size - s: if rem is below the size of a header plus a
\* FreeNode, B is returned whole, its size unchanged, and PREV_FREE is
\* cleared on its successor; otherwise B is returned with buffer_size s, the
\* remainder has buffer_size rem - header >= MINIMUM_BLOCK_SIZE, is the head
\* of the class of that size, and B and the remainder end where B ended.
C27_WholeOrExactSplit ==
    LET Probe(n, B) ==
            WholeOrSplit(RootPool_alloc(Heap, n), B,
                         calculate_allocation_searching_size(n),
                         buffer_size(mem, B), next_block_ptr(mem, B))
    IN  \A n \in ProbeSizes : Pops(n) => Probe(n, Popped(n))

\* The last alloc kept its block whole (the block behind it is in use, a
\* split would have left a free remainder there); in this state one request
\* pops a block one header larger than its searching size and another
\* request splits its block.
C27_Witness ==
    /\ ~panic
    /\ last = "alloc"
    /\ ret \in DOMAIN live
    /\ ~is_freed(mem, next_block_ptr(mem, LiveBlock(ret)))
    /\ ~is_prev_freed(mem, next_block_ptr(mem, LiveBlock(ret)))
    /\ \E n \in ProbeSizes : Pops(n) /\ Remained(n) = BlockHeader_get_aligned_size
    /\ \E n \in ProbeSizes : Splits(n)

\* ------------------------------------------------------------------- C30
\* The classes the bitmaps of h mark as non-empty.
NonEmptyClasses(h) == {<<fl, sl>> : fl \in h.fl_bitmap, sl \in 0..31} \cap
                      UNION {{<<fl, sl>> : sl \in h.sl_bitmap[fl]} : fl \in h.fl_bitmap}

\* The blocks of list L are chained through their FreeNodes in the order of
\* L, from a head without prev to a last block without next.
LinkedInOrder(m, L) ==
    L # <<>> =>
        /\ free_prev(m, L[1]) = 0
        /\ free_next(m, L[Len(L)]) = 0
        /\ \A k \in 1..(Len(L) - 1) :
              free_next(m, L[k]) = L[k + 1] /\ free_prev(m, L[k + 1]) = L[k]

\* extract_root_block on class c of h takes the head of the list L of the
\* class and leaves the rest; insert_block of that block puts it back in
\* front of the rest, chained with it in both directions.
HeadOutHeadIn(h, c, L, ex) ==
    LET index == calculate_index(c)
        back  == insert_block(ex.h, L[1], c)
    IN  /\ L # <<>>
        /\ LinkedInOrder(h.mem, L)
        /\ ex.ret = L[1]
        /\ ClassList(ex.h, index) = Tail(L)
        /\ LinkedInOrder(ex.h.mem, Tail(L))
        /\ ~back.panic
        /\ ClassList(back, index) = L
        /\ free_prev(back.mem, L[1]) = 0
        /\ free_next(back.mem, L[1]) = (IF Len(L) = 1 THEN 0 ELSE L[2])
        /\ Len(L) > 1 => free_prev(back.mem, L[2]) = L[1]

C30_ListsHeadFirst ==
    ~panic =>
        \A c \in NonEmptyClasses(Heap) :
            HeadOutHeadIn(Heap, c, ClassList(Heap, calculate_index(c)),
                          extract_root_block(Heap, c))

\* The blocks of list L that are in set S, in the order of L.
Keep(L, S) == SelectSeq(L, LAMBDA b : b \in S)

\* From list old to list new of a class no block moved behind another: new
\* is what is left of old, or a block put in front of what is left of old.
EntersAtHead(old, new) ==
    \/ new = Keep(old, {new[k] : k \in DOMAIN new})
    \/ /\ new # <<>>
       /\ Tail(new) = Keep(old, {new[k] : k \in 2..Len(new)})

C30_Step ==
    (~panic /\ ~panic') =>
        \A i \in DOMAIN freed_block_map' :
            EntersAtHead(ClassList(Heap, i), ClassList(Heap, i)')

\* C30: every class list is last in, first out.  In every state the list
\* of a class is chained from its head, extract_root_block takes the head,
\* and insert_block puts a block in front of the head with prev None, next
\* the old head and the old head's prev the block; in every operation the
\* blocks that stay in a list keep their order and a block that enters a
\* list enters at its head, so the head is the block inserted last among
\* those listed.
C30_ClassListsAreLifo == [](C30_ListsHeadFirst) /\ [][C30_Step]_vars

\* The last free put a block in front of a block freed earlier: the class
\* lists two blocks and the head is behind the other in memory.
C30_Witness ==
    /\ ~panic
    /\ last = "free"
    /\ \E i \in DOMAIN freed_block_map :
          /\ Len(ClassList(Heap, i)) >= 2
          /\ ClassList(Heap, i)[1] > ClassList(Heap, i)[2]
          /\ free_prev(mem, ClassList(Heap, i)[2]) = ClassList(Heap, i)[1]

\* ------------------------------------------------------------------- C35
\* The fields of a header cell.
CellSize(hd) == round_down_block(hd[2])

CellFreed(hd) == (hd[2] \div FREED_MASK) % 2 = 1

CellPrevFreed(hd) == (hd[2] \div PREV_FREED_MASK) % 2 = 1

\* C35: set_buffer_size changes only the size of a header and keeps FREE and
\* PREV_FREE; set_freed sets only FREE and keeps the size and PREV_FREE;
\* set_previous_freed sets only PREV_FREE and keeps the size and FREE; none
\* of the three changes previous_header.
C35_SettersIndependent ==
    /\ fn_out.f = "set_freed" =>
          /\ CellFreed(fn_out.header) = fn_in.flag
          /\ CellSize(fn_out.header) = CellSize(fn_in.header)
          /\ CellPrevFreed(fn_out.header) = CellPrevFreed(fn_in.header)
          /\ fn_out.header[1] = fn_in.header[1]
    /\ fn_out.f = "set_previous_freed" =>
          /\ CellPrevFreed(fn_out.header) = fn_in.flag
          /\ CellSize(fn_out.header) = CellSize(fn_in.header)
          /\ CellFreed(fn_out.header) = CellFreed(fn_in.header)
          /\ fn_out.header[1] = fn_in.header[1]
    /\ (fn_out.f = "set_buffer_size" /\ ~fn_out.panic) =>
          /\ CellSize(fn_out.header) = fn_in.size
          /\ CellFreed(fn_out.header) = CellFreed(fn_in.header)
          /\ CellPrevFreed(fn_out.header) = CellPrevFreed(fn_in.header)
          /\ fn_out.header[1] = fn_in.header[1]

\* set_freed cleared FREE on a header that has PREV_FREE set, a size and a
\* previous_header.
C35_Witness ==
    /\ fn_out.f = "set_freed"
    /\ CellFreed(fn_in.header) /\ ~fn_in.flag
    /\ CellPrevFreed(fn_out.header)
    /\ CellSize(fn_out.header) > 0
    /\ fn_out.header[1] # 0

\* ------------------------------------------------------------------- C36
\* The highest and the lowest set bit of a positive word.
HighestSetBit(x) == CHOOSE k \in 0..30 : x \div (2 ^ k) = 1

LowestSetBit(x) == CHOOSE k \in 0..30 : x % (2 ^ k) = 0 /\ (x \div (2 ^ k)) % 2 = 1

\* C36: calculate_msb returns the index of the highest set bit and
\* calculate_lsb the index of the lowest set bit of every positive word, and
\* both return None for 0.
C36_MsbLsbOrNone ==
    /\ fn_out.f = "calculate_msb" =>
          fn_out.index = IF fn_in.value = 0 THEN None ELSE HighestSetBit(fn_in.value)
    /\ fn_out.f = "calculate_lsb" =>
          fn_out.index = IF fn_in.value = 0 THEN None ELSE LowestSetBit(fn_in.value)

\* ------------------------------------------------------------------- C31
\* The blocks of every class list of h, and the lists by class index.
ListedIn(h) == UNION {{ClassList(h, i)[k] : k \in DOMAIN ClassList(h, i)}
                         : i \in DOMAIN h.freed_block_map}

\* Every class list of h starts at a head without prev, is chained in both
\* directions, ends with a block without next and lists no block twice.
ListsWellFormed(h) ==
    \A i \in DOMAIN h.freed_block_map :
        /\ get_item(h.freed_block_map, i) # 0
        /\ Len(ClassList(h, i)) < WalkFuel
        /\ LinkedInOrder(h.mem, ClassList(h, i))
        /\ \A k \in DOMAIN ClassList(h, i) : Occurrences(ClassList(h, i), ClassList(h, i)[k]) = 1

\* Block x, taken out of its list L of class index i, has its FreeNode
\* cleared in h2 and is named by no head and no FreeNode of a listed block;
\* the rest of L is listed as before.
TakenOut(h2, x, i, L) ==
    /\ ~h2.panic
    /\ free_prev(h2.mem, x) = 0
    /\ free_next(h2.mem, x) = 0
    /\ \A j \in DOMAIN h2.freed_block_map : h2.freed_block_map[j] # x
    /\ \A y \in ListedIn(h2) :
          y # x /\ free_prev(h2.mem, y) # x /\ free_next(h2.mem, y) # x
    /\ ClassList(h2, i) = Keep(L, ListedIn(h2))
    /\ Len(ClassList(h2, i)) = Len(L) - 1
    /\ ListsWellFormed(h2)

\* C31: in every state between operations each class list is an acyclic
\* doubly linked list (head without prev, y.prev = x wherever x.next = y,
\* last block without next); and a block taken out by extract_root_block or
\* by extract_freed_block, from the head, the middle or the tail, has prev
\* and next cleared and is referenced by no head and no FreeNode that stays.
C31_ListsLinkedAndExtractClears ==
    ~panic =>
        /\ ListsWellFormed(Heap)
        /\ \A i \in DOMAIN freed_block_map :
              \A k \in DOMAIN ClassList(Heap, i) :
                  TakenOut(extract_freed_block(Heap, ClassList(Heap, i)[k]),
                           ClassList(Heap, i)[k], i, ClassList(Heap, i))
        /\ \A c \in NonEmptyClasses(Heap) :
              TakenOut(extract_root_block(Heap, c).h,
                       get_item(freed_block_map, calculate_index(c)),
                       calculate_index(c), ClassList(Heap, calculate_index(c)))

\* After a free a class lists two blocks, so that extract_freed_block of
\* the second takes a block from the tail and leaves the head.
C31_Witness ==
    /\ ~panic
    /\ last = "free"
    /\ \E i \in DOMAIN freed_block_map :
          /\ Len(ClassList(Heap, i)) = 2
          /\ ClassList(extract_freed_block(Heap, ClassList(Heap, i)[2]), i)
                = <<ClassList(Heap, i)[1]>>
          /\ free_next(extract_freed_block(Heap, ClassList(Heap, i)[2]).mem,
                       ClassList(Heap, i)[1]) = 0

\* ------------------------------------------------------------------- C32
\* The start block and the end block of every area of the area list of h
\* are in use, hold an AreaInfo and nothing respectively, and are listed in
\* no class.
SentinelsInPlace(h) ==
    /\ \A b \in StartSentinels(h) :
          /\ ~is_freed(h.mem, b)
          /\ buffer_size(h.mem, b) = calculate_allocation_size(SizeOfAreaInfo)
          /\ b \notin ListedIn(h)
    /\ \A b \in EndSentinels(h) :
          /\ ~is_freed(h.mem, b)
          /\ buffer_size(h.mem, b) = 0
          /\ b \notin ListedIn(h)

C32_InPlace == ~panic => SentinelsInPlace(Heap)

\* The pool after the step.
HeapAfter ==
    [mem |-> mem', fl_bitmap |-> fl_bitmap', sl_bitmap |-> sl_bitmap',
     areainfo_ptr |-> areainfo_ptr', freed_block_map |-> freed_block_map',
     maximum_memory_size |-> maximum_memory_size',
     used_memory_size |-> used_memory_size', panic |-> panic']

\* From pool h to pool h2 the area list and its sentinels stay where they
\* were.
SentinelsKept(h, h2) ==
    /\ Areas(h2) = Areas(h)
    /\ StartSentinels(h2) = StartSentinels(h)
    /\ EndSentinels(h2) = EndSentinels(h)
    /\ (StartSentinels(h) \cup EndSentinels(h)) \subseteq AllBlocks(h2)

\* A free leaves the area list and every end block where they were: no
\* sentinel is absorbed into a coalesced block.
C32_FreeStep ==
    (last' = "free" /\ ~panic /\ ~panic') => SentinelsKept(Heap, HeapAfter)

\* C32: in every state between operations, the start block and the end
\* block of every area of the area list is not FREE, has the aligned AreaInfo
\* size (start) or 0 (end) as buffer_size and is in no class list; and no
\* free absorbs one of them when it coalesces.
C32_SentinelsStay == [](C32_InPlace) /\ [][C32_FreeStep]_vars

\* After a free that coalesced in both directions every block between the
\* sentinels of an area is one FREE block, in a pool of two areas.
C32_Witness ==
    /\ ~panic
    /\ last = "free"
    /\ Len(Areas(Heap)) >= 2
    /\ DOMAIN live # {}
    /\ \E a \in Range(Areas(Heap)) :
          /\ Len(AreaBlocks(mem, a)) = 3
          /\ is_freed(mem, AreaBlocks(mem, a)[2])
          /\ is_prev_freed(mem, end_block_header(mem, a))

\* ---- C33
\* What holds at every statement of a call of DynamicPool::alloc: it has
\* tried root_pool.alloc at most twice and the OS has supplied it at most one
\* chunk (the root chunk included); a chunk is asked for only after one miss
\* and before any was added; and a call that has just returned gave back the pointer
\* of a block that is not FREE and holds the request when its last attempt
\* found one, and null when it found none.
C33_AtMostOneChunkTwoTries ==
    /\ fn_out.tries <= 2
    /\ fn_out.os_chunks <= 1
    /\ fn_out.at = "grow" => (fn_out.tries = 1 /\ ~fn_out.new_pool_created)
    /\ fn_out.new_pool_created => (fn_out.os_chunks = 1 /\ fn_out.tries >= 1)
    /\ (fn_out.at = "returned" /\ last # "free" /\ ~panic) =>
          /\ ret = fn_out.buffer
          /\ fn_out.tries = IF fn_out.new_pool_created THEN 2 ELSE 1
          /\ ret # 0 =>
                /\ ret \in DOMAIN live
                /\ ~is_freed(mem, LiveBlock(ret))
                /\ buffer_size(mem, LiveBlock(ret)) >= fn_in.size
          /\ ret = 0 => Misses(fn_in.size)

\* C33: a single DynamicPool::alloc call obtains at most one new chunk from
\* the OS and tries the root pool allocation at most twice; its retry loop
\* always terminates (every call that entered the loop returns, unless the
\* process aborts), returning the pointer on success and null when the
\* allocation found no block and no chunk could be added, or still found
\* none after the chunk was added.
C33_RetryLoopTerminates ==
    /\ [](C33_AtMostOneChunkTwoTries)
    /\ (fn_out.at = "try") ~> (fn_out.at = "returned" \/ panic)

\* A call missed, was given a chunk by the OS, tried a second time and
\* returned the pointer it then found.
C33_Witness ==
    /\ fn_out.at = "returned"
    /\ last = "grow"
    /\ fn_out.new_pool_created
    /\ fn_out.tries = 2
    /\ fn_out.os_chunks = 1
    /\ ret # 0
    /\ ~panic

\* ---- C34
\* The blocks of a class list from its head, as far as the links lead within
\* the given number of steps.
RECURSIVE C34_Follow(_, _, _)
C34_Follow(m, b, fuel) ==
    IF b = 0 \/ fuel = 0 THEN <<>>
    ELSE <<b>> \o C34_Follow(m, free_next(m, b), fuel - 1)

\* Some class list comes to the same block twice.
C34_LinkedTwice ==
    \E i \in DOMAIN freed_block_map :
        LET L == C34_Follow(mem, get_item(freed_block_map, i), 4)
        IN  \E j, k \in DOMAIN L : j # k /\ L[j] = L[k]

\* C34: a free of a pointer that was already freed, and not re-allocated
\* since, is detected and aborts; it never completes normally.
C34_DoubleFreeAborts == (last = "free again") => panic

\* What a double free that completed has left: the block is linked twice in
\* its class list and the usage was decremented a second time, below the
\* bytes of the blocks that are not FREE.
C34_Damage ==
    /\ last = "free again"
    /\ ~panic
    /\ C34_LinkedTwice
    /\ used_memory_size < BytesOf({b \in NonSentinelBlocks(Heap) : ~is_freed(mem, b)}, mem)
====
